---- MODULE Spec2Model ----
(***************************************************************************)
(* A model of the SQL tool server, src/sql_server/sql_server_mcp.py: the   *)
(* seven tool handlers, the table-name check they share, the result        *)
(* envelope they serialise, and the SQLite store they act on; the event   *)
(* loop that runs the handlers of several invocations; the start of the   *)
(* server's process; and, of the Google Forms server,                      *)
(* src/google_forms_mcp/google_forms_server_mcp.py, the handlers           *)
(* export_responses and modify_form_settings.                              *)
(*                                                                         *)
(* A Python str is a sequence of chunks (a table name or a statement head  *)
(* is a sequence of one-character chunks, an f-string is the concatenation *)
(* of its parts).  A Python or JSON value is a record [t |-> tag, v |-> _] *)
(* so that values of different types compare unequal.                      *)
(***************************************************************************)
EXTENDS Integers, Sequences, FiniteSets, TLC

\* ------------------------------------------------------------------ bounds
MaxNameLen == 2   \* longest table_name argument
MaxId      == 2   \* largest primary-key value an INSERT supplies
MaxInFlight == 3  \* most invocations in flight at once

\* -------------------------------------------------------------- characters
AsciiLower == {"a", "c", "d", "e", "h", "i", "l", "n", "r", "s", "t", "v", "w"}
AsciiUpper == {"A", "C", "D", "E", "H", "I", "L", "N", "R", "S", "T", "V", "W"}
Whitespace == {" ", "\n"}

\* str.upper(), character by character
Upper(c) ==
  CASE c = "a" -> "A" [] c = "c" -> "C" [] c = "d" -> "D" [] c = "e" -> "E"
    [] c = "h" -> "H" [] c = "i" -> "I" [] c = "l" -> "L" [] c = "n" -> "N"
    [] c = "r" -> "R" [] c = "s" -> "S" [] c = "t" -> "T" [] c = "w" -> "W"
    [] c = "v" -> "V"
    [] OTHER -> c

PyUpper(s) == [i \in 1..Len(s) |-> Upper(s[i])]

\* str.lower(), character by character
Lower(c) == IF c \in AsciiUpper THEN CHOOSE l \in AsciiLower : Upper(l) = c ELSE c

PyLower(s) == [i \in 1..Len(s) |-> Lower(s[i])]

\* str.split(sep) of a string in which each separator is a chunk of its own:
\* the parts between the separators, empty parts included
RECURSIVE PySplit(_, _)
PySplit(s, sep) ==
  IF \A i \in 1..Len(s) : s[i] # sep THEN <<s>>
  ELSE LET k == CHOOSE i \in 1..Len(s) :
                  s[i] = sep /\ \A j \in 1..(i - 1) : s[j] # sep
       IN  <<SubSeq(s, 1, k - 1)>> \o PySplit(SubSeq(s, k + 1, Len(s)), sep)

RECURSIVE PyLStrip(_)
PyLStrip(s) ==
  IF s # <<>> /\ Head(s) \in Whitespace THEN PyLStrip(Tail(s)) ELSE s

RECURSIVE PyRStrip(_)
PyRStrip(s) ==
  IF s # <<>> /\ s[Len(s)] \in Whitespace
    THEN PyRStrip(SubSeq(s, 1, Len(s) - 1))
    ELSE s

\* str.strip()
PyStrip(s) == PyRStrip(PyLStrip(s))

\* str.startswith(prefix)
StartsWith(s, prefix) ==
  /\ Len(prefix) <= Len(s)
  /\ SubSeq(s, 1, Len(prefix)) = prefix

\* part occurs in s as a contiguous run of chunks
Contains(s, part) ==
  \E i \in 0..(Len(s) - Len(part)) : SubSeq(s, i + 1, i + Len(part)) = part

\* ------------------------------------------------------- table-name check
\* The characters a table_name argument is drawn from.
NameChars == {"a", "A", "s", "_", "1", ";", "'", " ", "\n"}

Names == UNION {[1..n -> NameChars] : n \in 0..MaxNameLen}

IdentStart == {"a", "A", "s", "_"}          \* [a-zA-Z_]   restricted to NameChars
IdentPart  == {"a", "A", "s", "_", "1"}     \* [a-zA-Z0-9_] restricted to NameChars

\* Python's "$" without re.MULTILINE: the end of the string, or just before
\* a newline that is the last character of the string.
DollarMatchesAfter(s, k) ==
  \/ k = Len(s)
  \/ k = Len(s) - 1 /\ s[Len(s)] = "\n"

\* re.match(r"^[a-zA-Z_][a-zA-Z0-9_]*$", table_name): some number k >= 1 of
\* characters is consumed by the two character classes, and "$" matches there.
ReMatch(s) ==
  \E k \in 1..Len(s) :
    /\ s[1] \in IdentStart
    /\ \A i \in 2..k : s[i] \in IdentPart
    /\ DollarMatchesAfter(s, k)

\* ------------------------------------------------------------ Python values
PyStr(s)   == [t |-> "str",   v |-> s]
PyInt(n)   == [t |-> "int",   v |-> n]
PyBytes(s) == [t |-> "bytes", v |-> s]
PyNone     == [t |-> "none",  v |-> <<>>]
PyBool(b)  == [t |-> "bool",  v |-> b]
PyList(xs) == [t |-> "list",  v |-> xs]
\* a dict is its items in insertion order: <<key, value>> pairs with str keys
PyDict(kv) == [t |-> "dict",  v |-> kv]

Str(word) == <<word>>       \* a str written as one chunk

DictKeys(d)   == {d.v[i][1] : i \in 1..Len(d.v)}
DictHas(d, k) == k \in DictKeys(d)
DictGet(d, k) == d.v[CHOOSE i \in 1..Len(d.v) : d.v[i][1] = k][2]

\* d[k] = val: an existing key keeps its position and takes the new value
DictSet(d, k, val) ==
  IF DictHas(d, k)
    THEN PyDict([i \in 1..Len(d.v) |->
                   IF d.v[i][1] = k THEN <<k, val>> ELSE d.v[i]])
    ELSE PyDict(Append(d.v, <<k, val>>))

\* zip(columns, row): as many pairs as the shorter of the two
Zip(columns, row) ==
  [i \in 1..(IF Len(columns) < Len(row) THEN Len(columns) ELSE Len(row))
     |-> <<columns[i], row[i]>>]

\* dict(pairs)
RECURSIVE DictOf(_)
DictOf(pairs) ==
  IF pairs = <<>>
    THEN PyDict(<<>>)
    ELSE LET n == Len(pairs)
         IN  DictSet(DictOf(SubSeq(pairs, 1, n - 1)), pairs[n][1], pairs[n][2])

\* ------------------------------------------------------------------- JSON
\* A JSON document, as json.dumps writes it and json.loads reads it.
JString(s)  == [t |-> "string", v |-> s]
JNumber(n)  == [t |-> "number", v |-> n]
JNull       == [t |-> "null",   v |-> <<>>]
JBool(b)    == [t |-> "boolean", v |-> b]
JArray(xs)  == [t |-> "array",  v |-> xs]
JObject(kv) == [t |-> "object", v |-> kv]

\* json.dumps raises TypeError on a bytes value anywhere in its argument
RECURSIVE Serializable(_)
Serializable(x) ==
  CASE x.t = "bytes" -> FALSE
    [] x.t = "list"  -> \A i \in 1..Len(x.v) : Serializable(x.v[i])
    [] x.t = "dict"  -> \A i \in 1..Len(x.v) : Serializable(x.v[i][2])
    [] OTHER         -> TRUE

RECURSIVE JsonDumps(_)
JsonDumps(x) ==
  CASE x.t = "str"  -> JString(x.v)
    [] x.t = "int"  -> JNumber(x.v)
    [] x.t = "none" -> JNull
    [] x.t = "bool" -> JBool(x.v)
    [] x.t = "list" -> JArray([i \in 1..Len(x.v) |-> JsonDumps(x.v[i])])
    [] x.t = "dict" ->
         JObject([i \in 1..Len(x.v) |-> <<x.v[i][1], JsonDumps(x.v[i][2])>>])

RECURSIVE JsonLoads(_)
JsonLoads(j) ==
  CASE j.t = "string" -> PyStr(j.v)
    [] j.t = "number" -> PyInt(j.v)
    [] j.t = "null"   -> PyNone
    [] j.t = "boolean" -> PyBool(j.v)
    [] j.t = "array"  -> PyList([i \in 1..Len(j.v) |-> JsonLoads(j.v[i])])
    [] j.t = "object" ->
         DictOf([i \in 1..Len(j.v) |-> <<j.v[i][1], JsonLoads(j.v[i][2])>>])

\* len(x) of a parsed value: the number of keys of a dict, of items of a list
PyLen(x) == Len(x.v)

\* ------------------------------------------------------------- the store
\* What the file system holds at a path: nothing, or an SQLite database, which
\* is its tables in catalog (sqlite_master) order.  A zero-byte file is a
\* database without tables.
Absent        == [t |-> "absent", v |-> <<>>]
Database(tbl) == [t |-> "db",     v |-> tbl]

GoodPath == "t.db"          \* a path in a writable directory
BadPath  == "nodir/t.db"    \* a path whose directory does not exist
Paths    == {GoodPath, BadPath}

\* A column as PRAGMA table_info reports it.
Column(cid, name, type, notnull, pk) ==
  [cid |-> cid, name |-> Str(name), type |-> Str(type), notnull |-> notnull,
   dflt_value |-> PyNone, pk |-> pk]

\* (id INTEGER PRIMARY KEY, name TEXT)
ColsIdName == <<Column(0, "id", "INTEGER", 0, 1), Column(1, "name", "TEXT", 0, 0)>>
\* (name TEXT NOT NULL, id INTEGER PRIMARY KEY)
ColsNameId == <<Column(0, "name", "TEXT", 1, 0), Column(1, "id", "INTEGER", 0, 1)>>

\* The table names statements use; SQLite resolves "a" and "A" to one table.
TableA     == <<"a">>
TableUpA   == <<"A">>
TableU1    == <<"_", "1">>
TableNames == {TableA, TableUpA, TableU1}
\* a table whose name is a reserved word, which a statement has to quote
TableAs    == <<"a", "s">>

\* SQLite compares table names without regard to ASCII case.
NoCase(name) == PyUpper(name)

\* the column list a CREATE TABLE statement of the model gives the table
CreateCols(name) == IF NoCase(name) = NoCase(TableA) THEN ColsIdName ELSE ColsNameId

\* the index of the table a name resolves to, 0 when there is none
FindTable(tables, name) ==
  IF \E i \in 1..Len(tables) : NoCase(tables[i].name) = NoCase(name)
    THEN CHOOSE i \in 1..Len(tables) : NoCase(tables[i].name) = NoCase(name)
    ELSE 0

\* a stored row [id, val] as the tuple a cursor returns, in column order
RowTuple(cols, r) ==
  [i \in 1..Len(cols) |-> IF cols[i].name = Str("id") THEN PyInt(r.id) ELSE r.val]

ColumnNames(cols) == [i \in 1..Len(cols) |-> cols[i].name]

\* the rows of a sequence that satisfy "WHERE id = k" (every row when k = 0)
RECURSIVE Matching(_, _)
Matching(rows, k) ==
  IF rows = <<>> THEN <<>>
  ELSE IF k = 0 \/ Head(rows).id = k
         THEN <<Head(rows)>> \o Matching(Tail(rows), k)
         ELSE Matching(Tail(rows), k)

RECURSIVE NotMatching(_, _)
NotMatching(rows, k) ==
  IF rows = <<>> THEN <<>>
  ELSE IF k = 0 \/ Head(rows).id = k
         THEN NotMatching(Tail(rows), k)
         ELSE <<Head(rows)>> \o NotMatching(Tail(rows), k)

\* a rowid table is kept in rowid order: the new row goes before the first
\* row with a larger id
RECURSIVE InsertRow(_, _)
InsertRow(rows, r) ==
  IF rows = <<>> THEN <<r>>
  ELSE IF r.id < Head(rows).id
         THEN <<r>> \o rows
         ELSE <<Head(rows)>> \o InsertRow(Tail(rows), r)

RemoveAt(seq, i) == SubSeq(seq, 1, i - 1) \o SubSeq(seq, i + 1, Len(seq))

\* ------------------------------------------------------------- statements
\* What a handler passes to cursor.execute: a statement text with the strings
\* an f-string interpolated into it (interp) and the values bound to its "?"
\* placeholders (params).  For execute_query the text is the caller's query.
ListTablesText  == "SELECT name FROM sqlite_master WHERE type='table';"
LookupTableText == "SELECT name FROM sqlite_master WHERE type='table' AND name=?;"
TableInfoText   == "PRAGMA table_info({table_name});"
DropTableText   == "DROP TABLE {table_name};"
CountRowsText   == "SELECT COUNT(*) FROM {table_name};"
QueryText       == "{query}"

Statement(text, interp, params, query) ==
  [text |-> text, interp |-> interp, params |-> params, query |-> query]

\* A query argument of execute_query: its text up to the end of its first
\* word, character by character, and the rest of the statement in parsed form
\* (the table it names, quoted where SQL requires it, the id of its WHERE
\* clause or VALUES list with 0 for no WHERE clause, the value of its
\* VALUES list, and whether it joins the table with itself).
Query(text, table, id, val) ==
  [text |-> text, body |-> [table |-> table, id |-> id, val |-> val, join |-> FALSE]]

\* "SELECT x.id, y.id FROM t AS x, t AS y"
JoinQuery(text, table) ==
  [text |-> text, body |-> [table |-> table, id |-> 0, val |-> PyNone, join |-> TRUE]]

ValX    == PyStr(Str("x"))       \* the SQL literal 'x'
ValBlob == PyBytes(Str("00"))    \* the SQL literal x'00'

KwSelect == <<"S", "E", "L", "E", "C", "T">>
KwInsert == <<"I", "N", "S", "E", "R", "T">>
KwCreate == <<"C", "R", "E", "A", "T", "E">>
KwDelete == <<"D", "E", "L", "E", "T", "E">>
KwWith   == <<"W", "I", "T", "H">>

\* SQLite's tokenizer skips white space and "--" comments before a token.
RECURSIVE SqlSkipComment(_)
SqlSkipComment(s) ==
  IF s = <<>> THEN s
  ELSE IF Head(s) = "\n" THEN Tail(s) ELSE SqlSkipComment(Tail(s))

RECURSIVE SqlSkipBlank(_)
SqlSkipBlank(s) ==
  IF s = <<>> THEN s
  ELSE IF Head(s) \in Whitespace THEN SqlSkipBlank(Tail(s))
  ELSE IF StartsWith(s, <<"-", "-">>) THEN SqlSkipBlank(SqlSkipComment(s))
  ELSE s

\* the longest run of letters s begins with
RECURSIVE SqlWord(_)
SqlWord(s) ==
  IF s # <<>> /\ Head(s) \in (AsciiLower \cup AsciiUpper)
    THEN <<Head(s)>> \o SqlWord(Tail(s))
    ELSE <<>>

\* the first word of a statement as the parser sees it: keywords are matched
\* without regard to case
SqlFirstKeyword(text) == PyUpper(SqlWord(SqlSkipBlank(text)))

\* an interpolated table name as the parser reads it: white space around it is
\* skipped, and what is left is a name only if it is an identifier
SqlNameToken(s) == PyStrip(s)

\* the reserved words of SQL that the characters of NameChars spell; the
\* tokenizer reads them as keywords whatever their case
SqlKeywords == {<<"A", "S">>}

\* an unquoted token is a name when it has the shape of an identifier and is
\* not a reserved word
SqlIsIdentifier(s) ==
  /\ s # <<>>
  /\ s[1] \in IdentStart
  /\ \A i \in 2..Len(s) : s[i] \in IdentPart
  /\ PyUpper(s) \notin SqlKeywords

\* --------------------------------------------------------------- exceptions
NoExc == [type |-> "none", text |-> <<>>]
Exc(type, text) == [type |-> type, text |-> text]

OperationalError(text) == Exc("OperationalError", text)
IntegrityError(text)   == Exc("IntegrityError", text)

NoSuchTable(name)   == OperationalError(<<"no such table: ">> \o name)
SyntaxError(near)   == OperationalError(<<"near \"">> \o near \o <<"\": syntax error">>)
AlreadyExists(name) == OperationalError(<<"table ">> \o name \o <<" already exists">>)
UniqueFailed(name)  == IntegrityError(<<"UNIQUE constraint failed: ">> \o name \o <<".id">>)
CannotOpen          == OperationalError(Str("unable to open database file"))
DiskIOError         == OperationalError(Str("disk I/O error"))
NotSerializable     == Exc("TypeError", Str("Object of type bytes is not JSON serializable"))
OSErrorRemove       == Exc("PermissionError", Str("[Errno 13] Permission denied"))

\* ------------------------------------------------------- SQLite's execution
\* The outcome of cursor.execute on a connection that sees `tables`: the
\* exception raised (NoExc for none), the tables afterwards, the result rows
\* and column names (description), cursor.rowcount, and whether the statement
\* wrote through a transaction ("dml"), wrote directly ("ddl") or only read.
Outcome(exc, tables, rows, description, rowcount, writes) ==
  [exc |-> exc, tables |-> tables, rows |-> rows, description |-> description,
   rowcount |-> rowcount, writes |-> writes]

Raises(exc, tables) == Outcome(exc, tables, <<>>, <<>>, -1, "none")

Reads(tables, rows, description) ==
  Outcome(NoExc, tables, rows, description, -1, "none")

SqlSelect(tables, name, k) ==
  LET i == FindTable(tables, name)
  IN  IF i = 0 THEN Raises(NoSuchTable(name), tables)
      ELSE LET m == Matching(tables[i].rows, k)
           IN  Reads(tables,
                     [j \in 1..Len(m) |-> RowTuple(tables[i].cols, m[j])],
                     ColumnNames(tables[i].cols))

\* the join of a table with itself, of which the ids of both sides are
\* selected: one row per pair of rows, both result columns named id
SqlSelectJoin(tables, name) ==
  LET i == FindTable(tables, name)
  IN  IF i = 0 THEN Raises(NoSuchTable(name), tables)
      ELSE LET rows == tables[i].rows
               n    == Len(rows)
           IN  Reads(tables,
                     [p \in 1..(n * n) |->
                        <<PyInt(rows[((p - 1) \div n) + 1].id),
                          PyInt(rows[((p - 1) % n) + 1].id)>>],
                     <<Str("id"), Str("id")>>)

SqlInsert(tables, name, k, val) ==
  LET i == FindTable(tables, name)
  IN  IF i = 0 THEN Raises(NoSuchTable(name), tables)
      ELSE IF Matching(tables[i].rows, k) # <<>>
        THEN Raises(UniqueFailed(tables[i].name), tables)
      ELSE Outcome(NoExc,
                   [tables EXCEPT ![i].rows = InsertRow(@, [id |-> k, val |-> val])],
                   <<>>, <<>>, 1, "dml")

SqlCreate(tables, name) ==
  IF FindTable(tables, name) # 0 THEN Raises(AlreadyExists(name), tables)
  ELSE Outcome(NoExc,
               Append(tables, [name |-> name, cols |-> CreateCols(name), rows |-> <<>>]),
               <<>>, <<>>, -1, "ddl")

SqlDelete(tables, name, k) ==
  LET i == FindTable(tables, name)
  IN  IF i = 0 THEN Raises(NoSuchTable(name), tables)
      ELSE Outcome(NoExc,
                   [tables EXCEPT ![i].rows = NotMatching(@, k)],
                   <<>>, <<>>, Len(Matching(tables[i].rows, k)), "dml")

\* a DROP that reports no error and leaves the catalog as it is
SqlDropLeavesTable(tables, name) ==
  IF FindTable(tables, name) = 0 THEN Raises(NoSuchTable(name), tables)
  ELSE Outcome(NoExc, tables, <<>>, <<>>, -1, "ddl")

SqlDrop(tables, name) ==
  LET i == FindTable(tables, name)
  IN  IF i = 0 THEN Raises(NoSuchTable(name), tables)
      ELSE Outcome(NoExc, RemoveAt(tables, i), <<>>, <<>>, -1, "ddl")

SqlCount(tables, name) ==
  LET i == FindTable(tables, name)
  IN  IF i = 0 THEN Raises(NoSuchTable(name), tables)
      ELSE Reads(tables, << <<PyInt(Len(tables[i].rows))>> >>, <<Str("COUNT(*)")>>)

TableInfoColumns ==
  <<Str("cid"), Str("name"), Str("type"), Str("notnull"), Str("dflt_value"), Str("pk")>>

TableInfoRow(c) ==
  <<PyInt(c.cid), PyStr(c.name), PyStr(c.type), PyInt(c.notnull), c.dflt_value, PyInt(c.pk)>>

\* PRAGMA table_info of a name that resolves to no table returns no rows
SqlTableInfo(tables, name) ==
  LET i == FindTable(tables, name)
  IN  Reads(tables,
            IF i = 0 THEN <<>>
            ELSE [j \in 1..Len(tables[i].cols) |-> TableInfoRow(tables[i].cols[j])],
            TableInfoColumns)

\* sqlite_master holds one row per table, in creation order
SqlListTables(tables) ==
  Reads(tables, [j \in 1..Len(tables) |-> <<PyStr(tables[j].name)>>], <<Str("name")>>)

\* "name = ?" compares the stored name with the parameter character by character
RECURSIVE NamedExactly(_, _)
NamedExactly(tables, name) ==
  IF tables = <<>> THEN <<>>
  ELSE IF Head(tables).name = name
         THEN << <<PyStr(name)>> >> \o NamedExactly(Tail(tables), name)
         ELSE NamedExactly(Tail(tables), name)

SqlLookupTable(tables, name) ==
  Reads(tables, NamedExactly(tables, name), <<Str("name")>>)

\* a caller's query: the first keyword decides what the rest means
SqlQuery(tables, q) ==
  LET kw == SqlFirstKeyword(q.text)
      b  == q.body
  IN  CASE kw = KwSelect /\ b.join -> SqlSelectJoin(tables, b.table)
        [] kw = KwSelect -> SqlSelect(tables, b.table, b.id)
        [] kw = KwWith   -> SqlSelect(tables, b.table, 0)
        [] kw = KwInsert -> SqlInsert(tables, b.table, b.id, b.val)
        [] kw = KwCreate -> SqlCreate(tables, b.table)
        [] kw = KwDelete -> SqlDelete(tables, b.table, b.id)
        [] OTHER         -> Raises(SyntaxError(SqlWord(SqlSkipBlank(q.text))), tables)

\* a statement with an interpolated table name
SqlNamed(tables, stmt) ==
  LET name == SqlNameToken(stmt.interp[1])
  IN  IF ~SqlIsIdentifier(name) THEN Raises(SyntaxError(name), tables)
      ELSE CASE stmt.text = TableInfoText -> SqlTableInfo(tables, name)
             [] stmt.text = DropTableText -> SqlDrop(tables, name)
             [] stmt.text = CountRowsText -> SqlCount(tables, name)

\* cursor.execute(statement) on a connection that sees `tables`
SqliteExecute(tables, stmt) ==
  CASE stmt.text = QueryText       -> SqlQuery(tables, stmt.query[1])
    [] stmt.text = ListTablesText  -> SqlListTables(tables)
    [] stmt.text = LookupTableText -> SqlLookupTable(tables, stmt.params[1])
    [] OTHER                       -> SqlNamed(tables, stmt)

\* ----------------------------------------------------- what handlers build
\* the test without strip()
IsSelectQueryUnstripped(query) == StartsWith(PyUpper(query.text), KwSelect)

\* the test of execute_query that decides between fetching and committing
IsSelectQuery(query) == StartsWith(PyUpper(PyStrip(query.text)), KwSelect)

\* results.insert(0, ...) in place of results.append(...)
RowDictsNewestFirst(columns, rows) ==
  [i \in 1..Len(rows) |-> DictOf(Zip(columns, rows[Len(rows) + 1 - i]))]

\* [dict(zip(columns, row)) for row in cursor.fetchall()]
RowDicts(columns, rows) == [i \in 1..Len(rows) |-> DictOf(Zip(columns, rows[i]))]

\* the column descriptors describe_table builds from the PRAGMA's rows
ColumnDict(row) ==
  PyDict(<< <<"cid", row[1]>>, <<"name", row[2]>>, <<"type", row[3]>>,
            <<"notnull", row[4]>>, <<"default_value", row[5]>>, <<"pk", row[6]>> >>)

ColumnDicts(rows) == [i \in 1..Len(rows) |-> ColumnDict(rows[i])]

\* the comprehension over fetchall()[1:]
FirstColumnOfLaterRows(rows) == [i \in 1..(Len(rows) - 1) |-> rows[i + 1][1]]

\* [row[0] for row in cursor.fetchall()]
FirstColumn(rows) == [i \in 1..Len(rows) |-> rows[i][1]]

Status(word) == <<"status", PyStr(Str(word))>>
Message(msg) == <<"message", PyStr(msg)>>

\* the rows returned bare, as the revision without an envelope did
DataBare(results) == PyList(results)

DataEnvelope(results)   == PyDict(<<Status("success"), <<"data", PyList(results)>> >>)

\* an affected_rows envelope that also carries a message
AffectedWithMessage(n) ==
  PyDict(<<Status("success"), <<"affected_rows", PyInt(n)>>,
           <<"message", PyStr(Str("Query executed"))>> >>)

AffectedEnvelope(n)     == PyDict(<<Status("success"), <<"affected_rows", PyInt(n)>> >>)
TablesEnvelope(tables)  == PyDict(<<Status("success"), <<"tables", PyList(tables)>> >>)
ColumnsEnvelope(name, columns) ==
  PyDict(<<Status("success"), <<"table", PyStr(name)>>, <<"columns", PyList(columns)>> >>)
RowCountEnvelope(name, count) ==
  PyDict(<<Status("success"), <<"table", PyStr(name)>>, <<"row_count", count>> >>)
\* the text under the key "error" in place of "message"
MessageUnderErrorKey(status, msg) == PyDict(<<Status(status), <<"error", PyStr(msg)>> >>)

MessageEnvelope(status, msg) == PyDict(<<Status(status), Message(msg)>>)

InvalidNameMessage(name) ==
  <<"Invalid table name: '">> \o name \o <<"'. Must be a valid SQL identifier.">>

\* the message each handler's except clause builds from the exception it caught
ErrorMessage(o, a, e) ==
  CASE o = "execute_query"   -> <<"Error executing SQL query: ">> \o e.text
    [] o = "list_tables"     -> <<"Error listing tables: ">> \o e.text
    [] o = "create_database" -> <<"Error creating database: ">> \o e.text
    [] o = "delete_database" -> <<"Error deleting database: ">> \o e.text
    [] o = "describe_table"  ->
         <<"Error describing table '">> \o a.table_name \o <<"': ">> \o e.text
    [] o = "delete_table"    ->
         <<"Error deleting table '">> \o a.table_name \o <<"': ">> \o e.text
    [] o = "get_table_row_count" ->
         IF e.type = "OperationalError"
           THEN <<"Error getting row count for table '">> \o a.table_name \o <<"': ">>
                  \o e.text \o <<". Ensure table exists.">>
           ELSE <<"An unexpected error occurred while getting row count for table '">>
                  \o a.table_name \o <<"': ">> \o e.text

\* the statement a handler executes first on its connection
FirstStatement(o, a) ==
  CASE o = "execute_query"  -> Statement(QueryText, <<>>, <<>>, <<a.query>>)
    [] o = "list_tables"    -> Statement(ListTablesText, <<>>, <<>>, <<>>)
    [] o = "describe_table" -> Statement(TableInfoText, <<a.table_name>>, <<>>, <<>>)
    [] o = "delete_table"   -> Statement(LookupTableText, <<>>, <<a.table_name>>, <<>>)
    [] o = "get_table_row_count" ->
         Statement(CountRowsText, <<a.table_name>>, <<>>, <<>>)

DropStatement(a) == Statement(DropTableText, <<a.table_name>>, <<>>, <<>>)

\* ------------------------------------------------------------------ inputs
Ops == {"execute_query", "list_tables", "create_database", "describe_table",
        "delete_database", "delete_table", "get_table_row_count"}

TableOps == {"describe_table", "delete_table", "get_table_row_count"}

NoName  == <<>>
NoQuery == Query(<<>>, NoName, 0, PyNone)

Args(path, table_name, query) ==
  [path |-> path, table_name |-> table_name, query |-> query]

\* statement heads: "SELECT", " select", "\nSelect", and a SELECT after a comment
SelectTexts ==
  { KwSelect,
    <<" ", "s", "e", "l", "e", "c", "t">>,
    <<"\n", "S", "e", "l", "e", "c", "t">>,
    <<"-", "-", "\n">> \o KwSelect }

MisspeltText == <<"S", "E", "L", "E", "C">>

\* the values an INSERT of the model may give the name column of a table
InsertValues(name) == IF name = TableU1 THEN {ValX} ELSE {ValX, ValBlob}

Queries ==
  {Query(t, n, k, PyNone) : t \in SelectTexts, n \in TableNames, k \in 0..MaxId}
    \cup {JoinQuery(KwSelect, n) : n \in TableNames}
    \cup {Query(KwWith, n, 0, PyNone) : n \in TableNames}
    \cup UNION {{Query(KwInsert, n, k, val) : k \in 1..MaxId, val \in InsertValues(n)}
                  : n \in TableNames}
    \cup {Query(KwCreate, n, 0, PyNone) : n \in TableNames}
    \cup {Query(KwDelete, n, k, PyNone) : n \in TableNames, k \in 0..MaxId}
    \cup {Query(MisspeltText, TableA, 0, PyNone)}

\* the table names and queries of calls on a path that cannot be opened
FewNames   == {TableA, <<"a", ";">>}
FewQueries == {Query(KwSelect, TableA, 0, PyNone), Query(KwCreate, TableA, 0, PyNone)}

\* SpecLive calls them with the few names and with these queries
LiveQueries == FewQueries \cup {Query(KwInsert, TableA, 1, ValX)}

\* Spec calls the handlers with every query above and with these table names:
\* the names of the tables, names of no table, and names the check is about
SampleNames ==
  TableNames \cup {<<"_">>, <<"a", "\n">>, <<"a", ";">>, <<"1">>, <<>>}

\* SpecNames calls them with every table name up to MaxNameLen characters, on
\* stores that a few queries set up
SetupQueries ==
  {Query(KwCreate, n, 0, PyNone) : n \in TableNames}
    \cup {Query(KwInsert, n, 1, ValX) : n \in TableNames}
    \cup {Query(KwSelect, TableA, 0, PyNone)}
    \cup {Query(KwCreate, TableAs, 0, PyNone)}

\* a test that finds no file anywhere
PathExistsNever(fs, path) == FALSE

\* os.path.exists(db_path)
PathExists(fs, path) == fs[path] # Absent

\* ------------------------------------------------------------ the registry
\* the commands registered with the server: the functions under @mcp.tool()
Registered == Ops

\* the parameters of a handler's signature, all of them of type str
Parameters(o) ==
  CASE o = "execute_query" -> {"connection_string", "query"}
    [] o = "list_tables" -> {"connection_string"}
    [] o \in {"create_database", "delete_database"} -> {"db_path"}
    [] OTHER -> {"connection_string", "table_name"}

\* a schema that requires a command's first parameter only
SchemaFirstOnly(o) ==
  IF o \in {"create_database", "delete_database"}
    THEN {"db_path"} ELSE {"connection_string"}

\* the parameters a command's inputSchema lists under "required"
Schema(o) == Parameters(o)

\* A request as the transport hands it to the registry: a command name, the
\* parameters it leaves out and the parameters whose value is no string and
\* cannot be made one.
Request(name, missing, mistyped) ==
  [name |-> name, missing |-> missing, mistyped |-> mistyped]

NoRequest == Request("", {}, {})

\* the requests that name no registered command, or name one and leave out
\* or mistype at least one of its parameters
MalformedRequests ==
  {Request("drop_database", {}, {})}
    \cup UNION {{req \in {Request(o, m, t) : m \in SUBSET Parameters(o),
                                              t \in SUBSET Parameters(o)} :
                     /\ req.missing \cap req.mistyped = {}
                     /\ req.missing \cup req.mistyped # {}} : o \in Ops}

NoFault == [kind |-> "none", params |-> {}]

\* dispatch(name, args) up to the call of the handler: the fault it fails
\* with, NoFault when it goes on to invoke the handler
Validate(req) ==
  IF req.name \notin Registered
    THEN [kind |-> "UnknownCommand", params |-> {}]
    ELSE LET offending == Schema(req.name) \cap (req.missing \cup req.mistyped)
         IN  IF offending # {}
               THEN [kind |-> "InvalidArguments", params |-> offending]
               ELSE NoFault

NotRefused == [request |-> NoRequest, fault |-> NoFault]

\* ------------------------------------------------------ what the caller sees
\* the status a caller reads in a returned string, "" when there is none
StatusOf(ret) ==
  IF ret.t # "object" THEN ""
  ELSE LET parsed == JsonLoads(ret)
       IN  IF DictHas(parsed, "status") /\ DictGet(parsed, "status").t = "str"
             THEN DictGet(parsed, "status").v[1]
             ELSE ""

\* The change to the catalog that a caller knows an invocation has made: a
\* database created or deleted, a table created or dropped, each reported with
\* status success.
NoChange == [op |-> "none", path |-> "", table |-> <<>>]

Change(o, a, ret) ==
  IF StatusOf(ret) # "success" THEN NoChange
  ELSE CASE o \in {"create_database", "delete_database"} ->
              [op |-> o, path |-> a.path, table |-> NoName]
         [] o = "delete_table" ->
              [op |-> o, path |-> a.path, table |-> a.table_name]
         [] o = "execute_query" /\ SqlFirstKeyword(a.query.text) = KwCreate ->
              [op |-> "create_table", path |-> a.path, table |-> a.query.body.table]
         [] OTHER -> NoChange

\* The scenario a caller may follow on GoodPath: create the database, create
\* one table, insert n rows one at a time, count the rows, drop the table,
\* describe it.  A stage is reached by the call that belongs there when no
\* exception interrupts it; any other call on the path ends the scenario, and
\* a call on another path leaves it where it is.
NoScenario == [stage |-> "off", table |-> <<>>, n |-> 0]

ScenarioAfter(sc, o, a, exc, ret) ==
  IF a.path # GoodPath THEN sc
  ELSE IF exc # NoExc \/ ret.t # "object" THEN NoScenario
  ELSE LET kw == SqlFirstKeyword(a.query.text)
       IN  CASE o = "create_database" /\ StatusOf(ret) = "success" ->
                  [stage |-> "created", table |-> <<>>, n |-> 0]
             [] sc.stage = "created" /\ o = "execute_query" /\ kw = KwCreate ->
                  [stage |-> "filling", table |-> a.query.body.table, n |-> 0]
             [] sc.stage = "filling" /\ o = "execute_query" /\ kw = KwInsert
                  /\ a.query.body.table = sc.table ->
                  [sc EXCEPT !.n = @ + 1]
             [] sc.stage = "filling" /\ o = "get_table_row_count"
                  /\ a.table_name = sc.table ->
                  [sc EXCEPT !.stage = "counted"]
             [] sc.stage = "counted" /\ o = "delete_table" /\ a.table_name = sc.table ->
                  [sc EXCEPT !.stage = "dropped"]
             [] sc.stage = "dropped" /\ o = "describe_table" /\ a.table_name = sc.table ->
                  [sc EXCEPT !.stage = "described"]
             [] OTHER -> NoScenario

\* ------------------------------------------------- the Google Forms server
\* src/google_forms_mcp/google_forms_server_mcp.py: the handlers
\* export_responses and modify_form_settings, and the Google services they
\* call.  A URI is a str in which every "/" is a chunk of its own.

FormsOps == {"export_responses", "modify_form_settings"}

FormId     == <<"F1">>
NewSheetId == <<"N1">>

SheetUri   == <<"https:", "/", "/", "docs.google.com", "/", "spreadsheets",
                "/", "d", "/", "S1", "/", "edit">>
ViewUri    == <<"https:", "/", "/", "docs.google.com", "/", "forms",
                "/", "d", "/", "e", "/", "F1", "/", "viewform">>
ShortUri   == <<"https:", "/", "/", "forms.gle", "/", "F1">>
FiveUri    == <<"https:", "/", "/", "docs.google.com", "/", "forms", "/", "d">>
EmptyIdUri == <<"https:", "/", "/", "docs.google.com", "/", "spreadsheets",
                "/", "d", "/", "/", "edit">>

ResponderUris == {SheetUri, ViewUri, ShortUri, FiveUri, EmptyIdUri}

\* the documents forms().get(...).execute() may return: with or without an
\* info object, with or without a responderUri
FormDocs ==
  LET Ids    == {<< <<"formId", PyStr(FormId)>> >>}
      Infos  == {<<>>, << <<"info", PyDict(<< <<"title", PyStr(<<"Survey">>)>> >>)>> >>}
      Uris   == {<<>>} \cup {<< <<"responderUri", PyStr(u)>> >> : u \in ResponderUris}
  IN  {PyDict(i \o n \o u) : i \in Ids, n \in Infos, u \in Uris}

\* Python's truth value of an argument or a local variable
Truthy(x) ==
  CASE x.t = "none" -> FALSE
    [] x.t = "bool" -> x.v
    [] x.t = "int"  -> x.v # 0
    [] OTHER        -> x.v # <<>>

\* uri_parts[5] counts from 0 where the sixth part should be taken
ExtractSheetIdFifth(form_info) ==
  IF DictHas(form_info, "responderUri")
    THEN LET uri_parts == PySplit(DictGet(form_info, "responderUri").v, "/")
         IN  IF Len(uri_parts) > 4 THEN PyStr(uri_parts[5]) ELSE PyNone
    ELSE PyNone

\* response_sheet_id after the inner try block: uri_parts[5] of the
\* responderUri when it has more than five parts, None otherwise
ExtractSheetId(form_info) ==
  IF DictHas(form_info, "responderUri")
    THEN LET uri_parts == PySplit(DictGet(form_info, "responderUri").v, "/")
         IN  IF Len(uri_parts) > 5 THEN PyStr(uri_parts[6]) ELSE PyNone
    ELSE PyNone

\* form.get('info', {}).get('title', 'Form')
FormTitle(form_doc) ==
  IF DictHas(form_doc, "info") /\ DictHas(DictGet(form_doc, "info"), "title")
    THEN DictGet(DictGet(form_doc, "info"), "title").v
    ELSE <<"Form">>

SpreadsheetBody(form_doc) ==
  PyDict(<< <<"properties",
              PyDict(<< <<"title", PyStr(<<"Responses for ">> \o FormTitle(form_doc))>> >>)>> >>)

\* one entry of the requests list of a batchUpdate body
UpdateSettings(settings, mask) ==
  PyDict(<< <<"updateSettings",
              PyDict(<< <<"settings", PyDict(settings)>>,
                        <<"updateMask", PyStr(<<mask>>)>> >>)>> >>)

\* the batchUpdate that links the form to the spreadsheet
LinkRequest(sheet_id) ==
  PyDict(<< <<"requests", PyList(<<
    UpdateSettings(<< <<"responseDestination", PyStr(<<"SPREADSHEET">>)>>,
                      <<"spreadsheetId", sheet_id>> >>,
                   "responseDestination,spreadsheetId") >>)>> >>)

CollectEmailUpdate(a) ==
  IF a.collect_email # PyNone
    THEN <<UpdateSettings(<< <<"collectEmail", a.collect_email>> >>, "collectEmail")>>
    ELSE <<>>

LimitUpdate(a) ==
  IF a.limit_responses # PyNone /\ ~Truthy(a.limit_responses)
    THEN <<UpdateSettings(<< <<"isQuiz", PyBool(FALSE)>> >>, "isQuiz")>>
  ELSE IF Truthy(a.limit_responses) /\ Truthy(a.response_limit)
    THEN <<UpdateSettings(<< <<"limitOneResponsePerUser", PyBool(TRUE)>> >>,
                          "limitOneResponsePerUser")>>
  ELSE <<>>

\* the response-limit request appended before the collect-email request
SettingsUpdatesLimitFirst(a) == LimitUpdate(a) \o CollectEmailUpdate(a)

\* the list updates of modify_form_settings
SettingsUpdates(a) == CollectEmailUpdate(a) \o LimitUpdate(a)

SettingsRequest(a) == PyDict(<< <<"requests", PyList(SettingsUpdates(a))>> >>)

SettingsResult(a) ==
  PyDict(<< <<"form_id", PyStr(a.form_id)>>,
            <<"settings_updated", PyBool(TRUE)>>,
            <<"collect_email", a.collect_email>>,
            <<"limit_responses", a.limit_responses>>,
            <<"response_limit", a.response_limit>> >>)

SheetsPrefix == <<"https://docs.google.com/spreadsheets/d/">>

ExportResult(a, sheet_id) ==
  IF PyLower(a.format) = <<"c", "s", "v">>
    THEN PyDict(<< <<"form_id", PyStr(a.form_id)>>,
                   <<"export_format", PyStr(<<"csv">>)>>,
                   <<"download_link",
                     PyStr(SheetsPrefix \o sheet_id.v \o <<"/export?format=csv">>)>> >>)
    ELSE PyDict(<< <<"form_id", PyStr(a.form_id)>>,
                   <<"export_format", PyStr(<<"sheets">>)>>,
                   <<"spreadsheet_id", sheet_id>>,
                   <<"spreadsheet_link",
                     PyStr(SheetsPrefix \o sheet_id.v \o <<"/edit">>)>> >>)

\* the error a Google service call raises when the service refuses it
HttpError == Exc("HttpError", <<"<HttpError 404>">>)

\* the plain string the outer except clause returns
FormsErrorText(o, e) ==
  IF o = "export_responses"
    THEN [t |-> "text", v |-> <<"Error exporting responses: ">> \o e.text]
    ELSE [t |-> "text", v |-> <<"Error modifying form settings: ">> \o e.text]

\* one call of a Google service, and whether it returned or raised
ApiCall(api, body, ok) == [api |-> api, body |-> body, ok |-> ok]

Formats == {<<"c", "s", "v">>, <<"C", "S", "V">>, <<"C", "s", "v">>,
            <<"s", "h", "e", "e", "t", "s">>, <<>>}

Flags  == {PyNone, PyBool(TRUE), PyBool(FALSE)}
Limits == {PyNone, PyInt(0), PyInt(5)}

FormsArgs(o) ==
  IF o = "export_responses"
    THEN {[form_id |-> FormId, format |-> f, collect_email |-> PyNone,
           limit_responses |-> PyNone, response_limit |-> PyNone] : f \in Formats}
    ELSE {[form_id |-> FormId, format |-> <<>>, collect_email |-> c,
           limit_responses |-> l, response_limit |-> r] :
            c \in Flags, l \in Flags, r \in Limits}

NoFormsArgs == [form_id |-> <<>>, format |-> <<>>, collect_email |-> PyNone,
                limit_responses |-> PyNone, response_limit |-> PyNone]

\* ------------------------------------------------------------------- state
VARIABLES
  files,      \* what the file system holds at each path
  pc,         \* where the running handler is: "idle" and "done" when none runs
  op,         \* the handler that runs, or ran last
  args,       \* its arguments
  conn,       \* its local variable conn: "None", "open" or "closed"
  view,       \* the tables its connection sees, uncommitted changes included
  inTxn,      \* whether its connection has an open transaction
  cursor,     \* what its last cursor.execute left in the cursor
  openConns,  \* the number of connections open in the process
  returned,   \* the string it returned (a JSON document)
  accepted,   \* the table names the name check accepted in this invocation
  executed,   \* the statements this invocation passed to cursor.execute
  connects,   \* the number of sqlite3.connect calls of this invocation
  commits,    \* the number of successful conn.commit calls of this invocation
  raised,     \* the exception its except clause caught, NoExc for none
  pre,        \* files when the handler was called
  last,       \* the change the previous invocation made to the catalog, if any
  scenario,   \* how far the caller is in the scenario of create, fill, count, drop
  refused,    \* the malformed request the registry is refusing, and its fault
  inflight,   \* the invocations the dispatcher holds whose handler has not started
  suspended,  \* the frames of the handlers that wait at a suspension point
  answers,    \* the envelopes returned to the invocations submitted together
  batchPre,   \* files when those invocations were submitted
  form,       \* Forms server: the document the Forms service holds for the form
  fpc,        \* Forms server: where the running handler is
  fop,        \* Forms server: the handler that runs
  fargs,      \* Forms server: its arguments
  sheetId,    \* Forms server: its local variable response_sheet_id
  calls,      \* Forms server: the service calls this invocation has made
  freturned,  \* Forms server: the string it returned
  spc,        \* start-up: where the SQL server's process is
  binding,    \* start-up: what the module's names init_db and main are bound to
  argv,       \* start-up: the command-line arguments after the script name
  server,     \* start-up: the transport the server runs on, "none" when it does not
  cwd         \* start-up: the files the process has created in its directory

\* the state of the SQL server and of its caller
sqlVars == <<files, pc, op, args, conn, view, inTxn, cursor, openConns, returned,
             accepted, executed, connects, commits, raised, pre, last, scenario,
             refused, inflight, suspended, answers, batchPre>>

\* the dispatcher's queue and what the callers of one batch have received
loop == <<inflight, suspended, answers, batchPre>>

\* the state of the other servers of the repository, which the SQL server
\* does not touch
elsewhere == <<form, fpc, fop, fargs, sheetId, calls, freturned,
               spc, binding, argv, server, cwd>>

\* the state of the two other parts of the model
formsVars == <<form, fpc, fop, fargs, sheetId, calls, freturned>>
startVars == <<spc, binding, argv, server, cwd>>

vars == <<sqlVars, elsewhere>>

\* what no step of a handler touches: what the caller has seen so far, kept
\* from one invocation to the next, and the registry's refusal
observed == <<last, scenario, refused, loop, elsewhere>>

NoCursor == [rows |-> <<>>, description |-> <<>>, rowcount |-> -1]
NoReturn == [t |-> "nothing", v |-> <<>>]

Init ==
  /\ files = [p \in Paths |-> Absent]
  /\ pc = "idle"
  /\ op = "none"
  /\ args = Args(GoodPath, NoName, NoQuery)
  /\ conn = "None"
  /\ view = <<>>
  /\ inTxn = FALSE
  /\ cursor = NoCursor
  /\ openConns = 0
  /\ returned = NoReturn
  /\ accepted = {}
  /\ executed = <<>>
  /\ connects = 0
  /\ commits = 0
  /\ raised = NoExc
  /\ pre = files
  /\ last = NoChange
  /\ scenario = NoScenario
  /\ refused = NotRefused
  /\ inflight = <<>>
  /\ suspended = <<>>
  /\ answers = <<>>
  /\ batchPre = files
  /\ form = PyDict(<<>>)
  /\ fpc = "idle"
  /\ fop = "none"
  /\ fargs = NoFormsArgs
  /\ sheetId = PyNone
  /\ calls = <<>>
  /\ freturned = NoReturn
  /\ spc = "off"
  /\ binding = [n \in {"init_db", "main"} |-> "undefined"]
  /\ argv = <<>>
  /\ server = "none"
  /\ cwd = {}

\* ------------------------------------------------------- leaving a handler
\* a connection kept from one invocation to the next, which sees what the
\* invocation before left in it
KeptConnectionSees(fs, path) == view

\* what a connection that sqlite3.connect has just opened sees: the tables
\* committed to the file at the path
NewConnectionSees(fs, path) == fs[path].v

\* a check that looks at the first character only
NameCheckFirstOnly(table_name) == table_name # <<>> /\ table_name[1] \in IdentStart

\* The table-name check of describe_table, delete_table and get_table_row_count.
NameCheck(table_name) == ReMatch(table_name)

\* a finally clause that closes nothing
ConnLeftAsIs(c) == c

\* "finally: if conn: conn.close()": the state of conn afterwards.  A closed
\* connection is still a true value, and closing it again does nothing.
ConnAfterFinally(c) == IF c = "None" THEN "None" ELSE "closed"

\* Leaving the try block with conn in state c runs the finally clause; an open
\* transaction is rolled back when its connection closes.
Leave(c) ==
  /\ conn' = ConnAfterFinally(c)
  /\ openConns' = IF conn = "open" /\ conn' # "open" THEN openConns - 1 ELSE openConns
  /\ view' = <<>>
  /\ inTxn' = FALSE

\* "return json.dumps(value, indent=2)" where value always serialises
Return(value) ==
  /\ returned' = JsonDumps(value)
  /\ pc' = "done"
  /\ raised' = raised
  /\ Leave(conn)

\* a try block that starts after sqlite3.connect
TryAfterConnect(o, step) == step \notin {"check", "connect"}

\* The steps of handler o that its try block covers: every step but the
\* table-name check, which the three table handlers make before "try:".
TryCovers(o, step) == step # "check"

\* An exception e is raised at the current step.  Inside the try block the
\* except clause returns the error envelope and the finally clause runs;
\* outside it the exception leaves the handler.
Except(e) ==
  /\ raised' = e
  /\ IF TryCovers(op, pc)
       THEN /\ returned' = JsonDumps(MessageEnvelope("error", ErrorMessage(op, args, e)))
            /\ pc' = "done"
            /\ Leave(conn)
       ELSE /\ returned' = NoReturn
            /\ pc' = "crashed"
            /\ UNCHANGED <<conn, openConns, view, inTxn>>

\* describe_table going straight to its try block
FirstStepUnchecked(o) ==
  CASE o \in {"delete_table", "get_table_row_count"} -> "check"
    [] o \in {"create_database", "delete_database"} -> "exists"
    [] OTHER -> "connect"

\* the step a handler starts with
FirstStep(o) ==
  CASE o \in TableOps -> "check"
    [] o \in {"create_database", "delete_database"} -> "exists"
    [] OTHER -> "connect"

\* ----------------------------------------------------------------- actions
\* A tool call arrives: the handler starts with fresh local variables.  Its
\* table_name or query is drawn from the given sets on the path that can be
\* opened, and from the few above on the other.
CallWith(names, queries) ==
  /\ pc = "idle"
  /\ \E o \in Ops, path \in Paths :
       \E name \in (IF o \notin TableOps THEN {NoName}
                     ELSE IF path = GoodPath THEN names ELSE FewNames),
          query \in (IF o # "execute_query" THEN {NoQuery}
                      ELSE IF path = GoodPath THEN queries ELSE FewQueries) :
         /\ op' = o
         /\ args' = Args(path, name, query)
         /\ pc' = FirstStep(o)
  /\ conn' = "None"
  /\ view' = <<>>
  /\ inTxn' = FALSE
  /\ cursor' = NoCursor
  /\ returned' = NoReturn
  /\ accepted' = {}
  /\ executed' = <<>>
  /\ connects' = 0
  /\ commits' = 0
  /\ raised' = NoExc
  /\ pre' = files
  /\ refused' = NotRefused
  /\ UNCHANGED <<files, openConns, last, scenario, loop, elsewhere>>

\* A malformed request arrives.  The registry refuses it with a fault and the
\* handler is not invoked; were it to let the request through, Python would
\* raise TypeError on the call of the handler.
DispatchMalformed ==
  /\ pc = "idle"
  /\ \E req \in MalformedRequests :
       /\ refused' = [request |-> req, fault |-> Validate(req)]
       /\ pc' = IF Validate(req) # NoFault THEN "rejected" ELSE "crashed"
  /\ op' = "none"
  /\ args' = Args(GoodPath, NoName, NoQuery)
  /\ conn' = "None"
  /\ view' = <<>>
  /\ inTxn' = FALSE
  /\ cursor' = NoCursor
  /\ returned' = NoReturn
  /\ accepted' = {}
  /\ executed' = <<>>
  /\ connects' = 0
  /\ commits' = 0
  /\ raised' = NoExc
  /\ pre' = files
  /\ UNCHANGED <<files, openConns, last, scenario, loop, elsewhere>>

Call      == CallWith(SampleNames, Queries)
CallNames == CallWith(Names, SetupQueries)
CallFew   == CallWith(FewNames, LiveQueries)

\* "if not re.match(...): return error", before the try block
CheckName ==
  /\ pc = "check"
  /\ IF NameCheck(args.table_name)
       THEN /\ accepted' = accepted \cup {args.table_name}
            /\ pc' = "connect"
            /\ UNCHANGED <<conn, view, inTxn, openConns, returned, raised>>
       ELSE /\ Return(MessageEnvelope("error", InvalidNameMessage(args.table_name)))
            /\ UNCHANGED accepted
  /\ UNCHANGED <<files, op, args, cursor, executed, connects, commits, pre, observed>>

\* "if os.path.exists(db_path)" of create_database and
\* "if not os.path.exists(db_path)" of delete_database
CheckExists ==
  /\ pc = "exists"
  /\ LET exists == PathExists(files, args.path)
     IN  CASE op = "create_database" /\ exists ->
                Return(MessageEnvelope("exists",
                         <<"Database already exists at ", args.path>>))
           [] op = "create_database" /\ ~exists ->
                /\ pc' = "connect"
                /\ UNCHANGED <<conn, view, inTxn, openConns, returned, raised>>
           [] op = "delete_database" /\ ~exists ->
                Return(MessageEnvelope("not_found",
                         <<"Database file not found at ", args.path>>))
           [] op = "delete_database" /\ exists ->
                /\ pc' = "remove"
                /\ UNCHANGED <<conn, view, inTxn, openConns, returned, raised>>
  /\ UNCHANGED <<files, op, args, cursor, accepted, executed, connects, commits, pre, observed>>

\* "os.remove(db_path)" of delete_database, which may fail
Remove ==
  /\ pc = "remove"
  /\ \/ /\ files' = [files EXCEPT ![args.path] = Absent]
        /\ Return(MessageEnvelope("success", <<"Database deleted from ", args.path>>))
     \/ /\ Except(OSErrorRemove)
        /\ UNCHANGED files
  /\ UNCHANGED <<op, args, cursor, accepted, executed, connects, commits, pre, observed>>

\* "conn = sqlite3.connect(path)": opening a path that holds no file creates
\* an empty database there; a path in a missing directory cannot be opened
Connect ==
  /\ pc = "connect"
  /\ connects' = connects + 1
  /\ IF args.path = BadPath
       THEN /\ Except(CannotOpen)
            /\ UNCHANGED files
       ELSE /\ files' = IF files[args.path] = Absent
                          THEN [files EXCEPT ![args.path] = Database(<<>>)]
                          ELSE files
            /\ conn' = "open"
            /\ openConns' = openConns + 1
            /\ view' = NewConnectionSees(files', args.path)
            /\ inTxn' = FALSE
            /\ pc' = IF op = "create_database" THEN "close" ELSE "execute"
            /\ UNCHANGED <<returned, raised>>
  /\ UNCHANGED <<op, args, cursor, accepted, executed, commits, pre, observed>>

\* "conn.close(); return success" of create_database: the finally clause finds
\* the connection closed
CloseCreated ==
  /\ pc = "close"
  /\ returned' = JsonDumps(MessageEnvelope("success", <<"Database created at ", args.path>>))
  /\ pc' = "done"
  /\ Leave("closed")
  /\ UNCHANGED <<files, op, args, cursor, accepted, executed, connects, commits, raised, pre, observed>>

\* a connection in autocommit mode, where every statement is written at once
WritesThroughAlways(writes, txn) == writes # "none"

\* Whether a statement's changes reach the file as it executes.  A connection
\* opened as sqlite3.connect(path) begins a transaction before an INSERT,
\* UPDATE or DELETE and holds their changes until commit; a CREATE or DROP
\* outside a transaction is committed by SQLite as it executes.
WritesThrough(writes, txn) == writes = "ddl" /\ ~txn

\* cursor.execute(stmt) and what follows it in the try block up to the next
\* call on the store; the store may fail on any statement
ExecuteOn(stmt, next) ==
  /\ executed' = Append(executed, stmt)
  /\ \/ /\ Except(DiskIOError)
        /\ UNCHANGED <<files, cursor>>
     \/ LET out == SqliteExecute(view, stmt)
        IN  IF out.exc # NoExc
              THEN /\ Except(out.exc)
                   /\ UNCHANGED <<files, cursor>>
              ELSE /\ cursor' = [rows |-> out.rows, description |-> out.description,
                                 rowcount |-> out.rowcount]
                   /\ view' = out.tables
                   /\ inTxn' = (inTxn \/ out.writes = "dml")
                   /\ files' = IF WritesThrough(out.writes, inTxn)
                                 THEN [files EXCEPT ![args.path] = Database(out.tables)]
                                 ELSE files
                   /\ pc' = next
                   /\ UNCHANGED <<conn, openConns, returned, raised>>
  /\ UNCHANGED <<op, args, accepted, connects, commits, pre, observed>>

\* a handler that waits, after its statement, for something that never comes
AfterExecuteWaits(o, a) == "wait"

\* where a handler goes after its first statement: execute_query commits
\* unless its test finds a SELECT, every other handler fetches
AfterExecute(o, a) ==
  IF o = "execute_query" /\ ~IsSelectQuery(a.query) THEN "commit" ELSE "fetch"

\* the first cursor.execute of a handler
Execute ==
  /\ pc = "execute"
  /\ ExecuteOn(FirstStatement(op, args), AfterExecute(op, args))

\* what execute_query returns for a SELECT
SelectResult(cur) == DataEnvelope(RowDicts(cur.description, cur.rows))

\* what the handlers other than delete_table return from the rows fetched
Fetched(o, a, cur) ==
  CASE o = "execute_query" -> SelectResult(cur)
    [] o = "list_tables"   -> TablesEnvelope(FirstColumn(cur.rows))
    [] o = "describe_table" ->
         IF cur.rows = <<>>
           THEN MessageEnvelope("not_found",
                  <<"Table '">> \o a.table_name \o <<"' not found or has no columns.">>)
           ELSE ColumnsEnvelope(a.table_name, ColumnDicts(cur.rows))
    [] o = "get_table_row_count" -> RowCountEnvelope(a.table_name, cur.rows[1][1])

\* fetchall / fetchone and the return that follows; json.dumps raises inside
\* the try block when a fetched value does not serialise
Fetch ==
  /\ pc = "fetch"
  /\ IF op = "delete_table"
       THEN IF cursor.rows = <<>>
              THEN Return(MessageEnvelope("not_found",
                     <<"Table '">> \o args.table_name \o <<"' not found. No action taken.">>))
              ELSE /\ pc' = "drop"
                   /\ UNCHANGED <<conn, view, inTxn, openConns, returned, raised>>
       ELSE IF Serializable(Fetched(op, args, cursor))
              THEN Return(Fetched(op, args, cursor))
              ELSE Except(NotSerializable)
  /\ UNCHANGED <<files, op, args, cursor, accepted, executed, connects, commits, pre, observed>>

\* cursor.execute(f"DROP TABLE {table_name};") of delete_table
Drop ==
  /\ pc = "drop"
  /\ ExecuteOn(DropStatement(args), "commit")

\* what a handler returns after its commit
Committed(o, a, cur) ==
  IF o = "execute_query"
    THEN AffectedEnvelope(cur.rowcount)
    ELSE MessageEnvelope("success",
           <<"Table '">> \o a.table_name \o <<"' deleted successfully.">>)

\* "conn.commit()" and the return that follows.  With a transaction open the
\* commit writes it to the file, which may fail; with none open, as after a
\* CREATE or DROP, which SQLite has committed on its own, it does nothing.
Commit ==
  /\ pc = "commit"
  /\ \/ /\ files' = IF inTxn THEN [files EXCEPT ![args.path] = Database(view)] ELSE files
        /\ commits' = commits + 1
        /\ Return(Committed(op, args, cursor))
     \/ /\ inTxn
        /\ Except(DiskIOError)
        /\ UNCHANGED <<files, commits>>
  /\ UNCHANGED <<op, args, cursor, accepted, executed, connects, pre, observed>>

\* The returned string has been handed to the caller: the handler's frame, and
\* with it every local variable, is gone.  Only the store outlives the call.
ForgetFrame ==
  /\ pc \in {"done", "crashed", "rejected"}
  /\ pc' = "idle"
  /\ op' = "none"
  /\ args' = Args(GoodPath, NoName, NoQuery)
  /\ conn' = "None"
  /\ cursor' = NoCursor
  /\ returned' = NoReturn
  /\ accepted' = {}
  /\ executed' = <<>>
  /\ connects' = 0
  /\ commits' = 0
  /\ raised' = NoExc
  /\ pre' = files
  /\ refused' = NotRefused
  /\ last' = Change(op, args, returned)
  /\ scenario' = ScenarioAfter(scenario, op, args, raised, returned)
  /\ UNCHANGED <<files, view, inTxn, openConns, elsewhere>>

Forget == ForgetFrame /\ UNCHANGED loop

\* the steps of a running handler
HandlerStep ==
  \/ CheckName
  \/ CheckExists
  \/ Remove
  \/ Connect
  \/ CloseCreated
  \/ Execute
  \/ Fetch
  \/ Drop
  \/ Commit

\* the steps of a running handler, and the end of its invocation
Step == HandlerStep \/ Forget

Next == Call \/ DispatchMalformed \/ Step

Spec == Init /\ [][Next]_vars

NextNames == CallNames \/ DispatchMalformed \/ Step

SpecNames == Init /\ [][NextNames]_vars

\* The interpreter runs a handler that has been called from statement to
\* statement until it returns: no step of a running handler is postponed for
\* ever.  Calls arrive or not, as the caller pleases.
NextLive == CallFew \/ DispatchMalformed \/ Step

SpecLive == Init /\ [][NextLive]_vars /\ WF_vars(HandlerStep)

\* ---------------------------------------------- several invocations in flight
\* The dispatcher holds the invocations that have arrived and runs their
\* handlers, coroutines, on one event loop: the loop takes up another
\* invocation only when the running handler has returned or waits at an await.

BatchOps == {"create_database", "delete_database", "list_tables"}

\* the local variables of the running handler
frameVars == <<pc, op, args, conn, view, inTxn, cursor, returned, accepted,
               executed, connects, commits, raised, pre>>

Frame == [pc |-> pc, op |-> op, args |-> args, conn |-> conn, view |-> view,
          inTxn |-> inTxn, cursor |-> cursor, returned |-> returned,
          accepted |-> accepted, executed |-> executed, connects |-> connects,
          commits |-> commits, raised |-> raised, pre |-> pre]

\* a handler that awaits between its existence check and sqlite3.connect
YieldsBeforeConnect(o, step) == step = "connect"

\* whether handler o, about to run the given step, waits at an await there:
\* no handler of the module contains an await
Yields(o, step) == FALSE

\* several callers invoke the same operation on the same path at once
SubmitBatch ==
  /\ pc = "idle"
  /\ inflight = <<>>
  /\ suspended = <<>>
  /\ \E o \in BatchOps, path \in Paths, n \in 1..MaxInFlight :
       inflight' = [i \in 1..n |-> [op |-> o, args |-> Args(path, NoName, NoQuery)]]
  /\ answers' = <<>>
  /\ batchPre' = files
  /\ UNCHANGED <<files, openConns, frameVars, last, scenario, refused, suspended,
                 elsewhere>>

\* the loop starts the handler of the invocation that arrived first
StartNext ==
  /\ inflight # <<>>
  /\ inflight' = Tail(inflight)
  /\ suspended' = IF pc = "idle" THEN suspended ELSE Append(suspended, Frame)
  /\ op' = Head(inflight).op
  /\ args' = Head(inflight).args
  /\ pc' = FirstStep(Head(inflight).op)
  /\ conn' = "None"
  /\ view' = <<>>
  /\ inTxn' = FALSE
  /\ cursor' = NoCursor
  /\ returned' = NoReturn
  /\ accepted' = {}
  /\ executed' = <<>>
  /\ connects' = 0
  /\ commits' = 0
  /\ raised' = NoExc
  /\ pre' = files

\* the loop resumes a handler that waited
ResumeOne ==
  /\ suspended # <<>>
  /\ \E k \in 1..Len(suspended) :
       LET f    == suspended[k]
           rest == SubSeq(suspended, 1, k - 1) \o SubSeq(suspended, k + 1, Len(suspended))
       IN  /\ suspended' = IF pc = "idle" THEN rest ELSE Append(rest, Frame)
           /\ pc' = f.pc /\ op' = f.op /\ args' = f.args /\ conn' = f.conn
           /\ view' = f.view /\ inTxn' = f.inTxn /\ cursor' = f.cursor
           /\ returned' = f.returned /\ accepted' = f.accepted
           /\ executed' = f.executed /\ connects' = f.connects
           /\ commits' = f.commits /\ raised' = f.raised /\ pre' = f.pre
  /\ UNCHANGED inflight

\* the event loop picks what runs next
Schedule ==
  /\ pc = "idle" \/ Yields(op, pc)
  /\ (StartNext \/ ResumeOne)
  /\ UNCHANGED <<files, openConns, last, scenario, refused, answers, batchPre,
                 elsewhere>>

\* the handler's return value reaches its caller
Finish ==
  /\ ForgetFrame
  /\ answers' = Append(answers, [op |-> op, path |-> args.path, raised |-> raised,
                                 status |-> IF pc = "done" THEN StatusOf(returned)
                                            ELSE "none"])
  /\ UNCHANGED <<inflight, suspended, batchPre>>

NextConcurrent ==
  \/ SubmitBatch
  \/ Schedule
  \/ CheckExists
  \/ Remove
  \/ Connect
  \/ CloseCreated
  \/ Execute
  \/ Fetch
  \/ Finish

SpecConcurrent == Init /\ [][NextConcurrent]_vars

\* ------------------------------------------- the Google Forms server's steps
\* A tool call arrives.  The Forms service holds some document for the form.
FormsCall ==
  /\ fpc = "idle"
  /\ \E o \in FormsOps :
       /\ fop' = o
       /\ fargs' \in FormsArgs(o)
  /\ form' \in FormDocs
  /\ fpc' = "get"
  /\ sheetId' = PyNone
  /\ calls' = <<>>
  /\ freturned' = NoReturn
  /\ UNCHANGED <<sqlVars, startVars>>

\* an exception reaches the outer except clause
FormsExcept(e) ==
  /\ freturned' = FormsErrorText(fop, e)
  /\ fpc' = "done"

\* form = form_service.forms().get(formId=form_id).execute()
GetForm ==
  /\ fpc = "get"
  /\ \/ /\ calls' = Append(calls, ApiCall("forms.get", PyNone, TRUE))
        /\ fpc' = IF fop = "export_responses" THEN "get_again"
                  ELSE IF SettingsUpdates(fargs) # <<>> THEN "batchUpdate"
                  ELSE "return"
        /\ UNCHANGED freturned
     \/ /\ calls' = Append(calls, ApiCall("forms.get", PyNone, FALSE))
        /\ FormsExcept(HttpError)
  /\ UNCHANGED <<form, fop, fargs, sheetId, sqlVars, startVars>>

\* the inner try block of export_responses: the form is fetched again and
\* the spreadsheet id read from its responderUri; an exception is logged
GetFormAgain ==
  /\ fpc = "get_again"
  /\ \/ /\ calls' = Append(calls, ApiCall("forms.get", PyNone, TRUE))
        /\ sheetId' = ExtractSheetId(form)
     \/ /\ calls' = Append(calls, ApiCall("forms.get", PyNone, FALSE))
        /\ sheetId' = PyNone
  /\ fpc' = IF Truthy(sheetId') THEN "return" ELSE "create"
  /\ UNCHANGED <<form, fop, fargs, freturned, sqlVars, startVars>>

\* sheet = sheets_service.spreadsheets().create(body=...).execute()
CreateSpreadsheet ==
  /\ fpc = "create"
  /\ \/ /\ calls' = Append(calls, ApiCall("spreadsheets.create", SpreadsheetBody(form), TRUE))
        /\ sheetId' = PyStr(NewSheetId)
        /\ fpc' = "batchUpdate"
        /\ UNCHANGED freturned
     \/ /\ calls' = Append(calls, ApiCall("spreadsheets.create", SpreadsheetBody(form), FALSE))
        /\ FormsExcept(HttpError)
        /\ UNCHANGED sheetId
  /\ UNCHANGED <<form, fop, fargs, sqlVars, startVars>>

\* form_service.forms().batchUpdate(formId=form_id, body=...).execute()
BatchUpdate ==
  /\ fpc = "batchUpdate"
  /\ LET body == IF fop = "export_responses" THEN LinkRequest(sheetId)
                 ELSE SettingsRequest(fargs)
     IN  \/ /\ calls' = Append(calls, ApiCall("forms.batchUpdate", body, TRUE))
            /\ fpc' = "return"
            /\ UNCHANGED freturned
         \/ /\ calls' = Append(calls, ApiCall("forms.batchUpdate", body, FALSE))
            /\ FormsExcept(HttpError)
  /\ UNCHANGED <<form, fop, fargs, sheetId, sqlVars, startVars>>

\* return json.dumps({...}, indent=2)
FormsReturn ==
  /\ fpc = "return"
  /\ freturned' = JsonDumps(IF fop = "export_responses"
                              THEN ExportResult(fargs, sheetId)
                              ELSE SettingsResult(fargs))
  /\ fpc' = "done"
  /\ UNCHANGED <<form, fop, fargs, sheetId, calls, sqlVars, startVars>>

\* the returned string has been handed to the caller
FormsForget ==
  /\ fpc = "done"
  /\ fpc' = "idle"
  /\ fop' = "none"
  /\ fargs' = NoFormsArgs
  /\ sheetId' = PyNone
  /\ calls' = <<>>
  /\ freturned' = NoReturn
  /\ UNCHANGED <<form, sqlVars, startVars>>

NextForms ==
  \/ FormsCall
  \/ GetForm
  \/ GetFormAgain
  \/ CreateSpreadsheet
  \/ BatchUpdate
  \/ FormsReturn
  \/ FormsForget

SpecForms == Init /\ [][NextForms]_vars


\* ------------------------------------------------- starting the SQL server
\* The interpreter executes the module from top to bottom, binding each name
\* as it meets its def, and then the block under __name__ == "__main__".

\* the defs of the module that the start-up involves, in file order
Defs == << <<"init_db", "async init_db()">>,
           <<"main", "async main()">>,
           <<"main", "main(transport)">> >>

\* a def that leaves a name already bound as it is
DefineOnce(bound, name, def) ==
  IF bound[name] = "undefined" THEN [bound EXCEPT ![name] = def] ELSE bound

\* a def statement binds its name to the new function, whatever it was bound to
Define(bound, name, def) == [bound EXCEPT ![name] = def]

\* the number of defs executed so far
DefsDone == IF spc = "off" THEN 0
            ELSE IF spc = "def1" THEN 0
            ELSE IF spc = "def2" THEN 1
            ELSE IF spc = "def3" THEN 2
            ELSE 3

Argvs == {<<>>, <<"stdio">>, <<"sse">>, <<"SSE">>, <<"http">>, <<"">>}

\* transport_mode = sys.argv[1] if len(sys.argv) > 1 else "stdio"
TransportMode(args_) == IF Len(args_) > 0 THEN args_[1] ELSE "stdio"

\* the process is started with some arguments
StartProcess ==
  /\ spc = "off"
  /\ argv' \in Argvs
  /\ spc' = "def1"
  /\ UNCHANGED <<binding, server, cwd, sqlVars, formsVars>>

\* the interpreter executes the next def
DefineNext ==
  /\ spc \in {"def1", "def2", "def3"}
  /\ binding' = Define(binding, Defs[DefsDone + 1][1], Defs[DefsDone + 1][2])
  /\ spc' = IF spc = "def1" THEN "def2" ELSE IF spc = "def2" THEN "def3" ELSE "entry"
  /\ UNCHANGED <<argv, server, cwd, sqlVars, formsVars>>

\* "main(transport_mode)", the argument of asyncio.run, is evaluated first:
\* main(transport) starts the server or prints; async main() takes no argument
CallMain ==
  /\ spc = "entry"
  /\ IF binding["main"] = "main(transport)"
       THEN IF TransportMode(argv) \in {"stdio", "sse"}
              THEN /\ server' = TransportMode(argv)
                   /\ spc' = "serving"
              ELSE /\ server' = "none"
                   /\ spc' = "printed"
       ELSE /\ server' = "none"
            /\ spc' = "TypeError"
  /\ UNCHANGED <<binding, argv, cwd, sqlVars, formsVars>>

\* while mcp.run serves, tool calls arrive
Serve ==
  /\ spc = "serving"
  /\ CallFew

\* mcp.run returns when the transport closes, and with it main
ServerStops ==
  /\ spc = "serving"
  /\ pc = "idle"
  /\ server' = "none"
  /\ spc' = "returned"
  /\ UNCHANGED <<binding, argv, cwd, sqlVars, formsVars>>

\* asyncio.run(...) of what main returned: None, for which it raises
\* ValueError; given the coroutine of async main() it would run init_db, which
\* creates the database, and then sleep for ever
AsyncioRun ==
  /\ spc \in {"returned", "printed", "coroutine"}
  /\ IF spc = "coroutine"
       THEN /\ cwd' = cwd \cup {"your_sqlite_database.db"}
            /\ spc' = "sleeping"
       ELSE /\ cwd' = cwd
            /\ spc' = "ValueError"
  /\ UNCHANGED <<binding, argv, server, sqlVars, formsVars>>

NextStartup ==
  \/ StartProcess
  \/ DefineNext
  \/ CallMain
  \/ Serve
  \/ Step
  \/ ServerStops
  \/ AsyncioRun

SpecStartup == Init /\ [][NextStartup]_vars

\* ---------------------------------------------------------------- claims
\* the string a handler returned, parsed, and its status
Parsed     == JsonLoads(returned)
HasReturned == pc = "done"
StatusIs(word) ==
  /\ Parsed.t = "dict"
  /\ DictHas(Parsed, "status")
  /\ DictGet(Parsed, "status") = PyStr(Str(word))

\* ^[A-Za-z_][A-Za-z0-9_]*$ matching the string as a whole
WholeIdentifier(s) ==
  /\ Len(s) >= 1
  /\ s[1] \in IdentStart
  /\ \A i \in 2..Len(s) : s[i] \in IdentPart

\* the name check has been made in the running invocation
NameChecked == op \in TableOps /\ pc \notin {"idle", "check"}

\* C1: the table-name check accepts a string exactly when the string as a
\* whole matches ^[A-Za-z_][A-Za-z0-9_]*$; in particular it rejects a name
\* that ends in a newline.
C1_CheckAcceptsExactlyIdentifiers ==
  NameChecked => ((args.table_name \in accepted) <=> WholeIdentifier(args.table_name))

\* C2: a table handler called with a name the check rejects returns status
\* "error" without connecting or executing anything, and the store is as it
\* was when the handler was called.
C2_RejectedNameTouchesNothing ==
  (HasReturned /\ op \in TableOps /\ ~ReMatch(args.table_name)) =>
     /\ StatusIs("error")
     /\ connects = 0
     /\ executed = <<>>
     /\ openConns = 0
     /\ files = pre

C2_Witness ==
  /\ HasReturned
  /\ op = "describe_table"
  /\ args.table_name = <<"a", ";">>
  /\ files[GoodPath] # Absent
  /\ files[GoodPath].v # <<>>

\* C3: every executed statement that has a table name interpolated into it is
\* one of the three table statements, and the name is the handler's table_name
\* argument, which the check accepted earlier in the same invocation;
\* execute_query and list_tables execute no statement with an interpolated name.
C3_InterpolatedNamesWereChecked ==
  \A i \in 1..Len(executed) :
    LET stmt == executed[i]
    IN  /\ stmt.interp # <<>> =>
             /\ op \in TableOps
             /\ stmt.text \in {TableInfoText, DropTableText, CountRowsText}
             /\ stmt.interp = <<args.table_name>>
             /\ args.table_name \in accepted
             /\ ReMatch(args.table_name)
        /\ stmt.text \in {TableInfoText, DropTableText, CountRowsText} => stmt.interp # <<>>
        /\ op \in {"execute_query", "list_tables"} => stmt.interp = <<>>

C3_Witness ==
  /\ HasReturned
  /\ op = "delete_table"
  /\ Len(executed) = 2
  /\ executed[2].text = DropTableText
  /\ executed[2].interp = <<TableU1>>
  /\ StatusIs("success")

\* C4: whenever no handler is running, no connection is open: every
\* connection a handler opened is closed when it returns, on every exit path.
C4_NoConnectionOutlivesItsHandler ==
  pc \in {"idle", "done"} => (openConns = 0 /\ conn # "open")

\* a handler that returned through its except clause with a connection opened
C4_Witness ==
  /\ HasReturned
  /\ op = "execute_query"
  /\ connects = 1
  /\ raised # NoExc
  /\ conn = "closed"

\* C5: a failure of the store or the file system never leaves a handler as
\* an exception: the handler returns an envelope with status "error" whose
\* message contains the text of the exception.
C5_FailuresReturnErrorEnvelopes ==
  /\ pc # "crashed"
  /\ raised # NoExc =>
       /\ HasReturned
       /\ StatusIs("error")
       /\ DictHas(Parsed, "message")
       /\ DictGet(Parsed, "message").t = "str"
       /\ Contains(DictGet(Parsed, "message").v, raised.text)

\* a constraint violation reported as an error envelope
C5_Witness ==
  /\ HasReturned
  /\ raised.type = "IntegrityError"
  /\ StatusIs("error")

PayloadFields == {"data", "affected_rows", "columns", "tables", "message"}
Populated     == DictKeys(Parsed) \cap PayloadFields

\* a statement text that, stripped of white space at both ends and compared
\* without regard to case, begins with SELECT
BeginsWithSelect(text) ==
  LET stripped == PyStrip(text)
  IN  /\ Len(stripped) >= Len(KwSelect)
      /\ \A i \in 1..Len(KwSelect) : Upper(stripped[i]) = KwSelect[i]

\* C6 as claimed: every returned envelope has exactly one of the fields data,
\* affected_rows, columns, tables, message.
C6_ExactlyOnePayloadField ==
  HasReturned => Cardinality(Populated) = 1

\* the payload fields of an envelope, by command, status and kind of statement
ExpectedPayload ==
  IF ~StatusIs("success") THEN {"message"}
  ELSE CASE op = "execute_query" ->
              IF BeginsWithSelect(args.query.text) THEN {"data"} ELSE {"affected_rows"}
         [] op = "list_tables" -> {"tables"}
         [] op = "describe_table" -> {"columns"}
         [] op = "get_table_row_count" -> {}
         [] OTHER -> {"message"}

\* C6 as amended: the payload fields of a returned envelope are those its
\* command, status and kind of statement select: exactly one of the five,
\* except for the success envelope of get_table_row_count, which has none of
\* them and carries table and row_count.
C6_PayloadFieldsByCommand ==
  HasReturned =>
    /\ Populated = ExpectedPayload
    /\ (op = "get_table_row_count" /\ StatusIs("success")) <=> Populated = {}
    /\ Populated = {} => DictKeys(Parsed) = {"status", "table", "row_count"}
    /\ Populated # {} => Cardinality(Populated) = 1

C6_Witness ==
  /\ HasReturned
  /\ op = "get_table_row_count"
  /\ StatusIs("success")
  /\ DictGet(Parsed, "row_count") = PyInt(2)

\* C7: the status of every returned envelope is success, error, not_found or
\* exists; an envelope whose status is not success has a message string; only
\* create_database returns exists, and only describe_table, delete_database
\* and delete_table return not_found.
C7_StatusesAndMessages ==
  HasReturned =>
    /\ \E word \in {"success", "error", "not_found", "exists"} : StatusIs(word)
    /\ ~StatusIs("success") =>
         (DictHas(Parsed, "message") /\ DictGet(Parsed, "message").t = "str")
    /\ StatusIs("exists") => op = "create_database"
    /\ StatusIs("not_found") => op \in {"describe_table", "delete_database", "delete_table"}

C7_Witness ==
  /\ HasReturned
  /\ StatusIs("exists")
  /\ op = "create_database"

TablesAtCall == pre[args.path].v
TablesNow    == files[args.path].v

\* the value a stored row has in a column
ColumnValue(col, r) == IF col.name = Str("id") THEN PyInt(r.id) ELSE r.val

\* the mapping column name -> value of a stored row, columns in the order of
\* the table definition
RowMapping(cols, r) ==
  PyDict([c \in 1..Len(cols) |-> <<cols[c].name, ColumnValue(cols[c], r)>>])

\* execute_query returned success for a statement over one table that is a
\* SELECT both for SQLite and for the handler's test
SelectSucceeded ==
  /\ HasReturned
  /\ op = "execute_query"
  /\ SqlFirstKeyword(args.query.text) = KwSelect
  /\ ~args.query.body.join
  /\ BeginsWithSelect(args.query.text)
  /\ raised = NoExc

InsertSucceeded ==
  /\ HasReturned
  /\ op = "execute_query"
  /\ SqlFirstKeyword(args.query.text) = KwInsert
  /\ raised = NoExc

JustAfter(o) == last.op = o /\ last.path = args.path

\* C11: create_database on a path where nothing exists returns success, and a
\* create_database on the same path right after it returns exists;
\* delete_database on a path where a database exists returns success, and a
\* delete_database on the same path right after it returns not_found.  The
\* second call of each pair leaves the store as the first call left it.
C11_CreateTwiceDeleteTwice ==
  /\ (HasReturned /\ op = "create_database" /\ pre[args.path] = Absent /\ raised = NoExc)
       => (StatusIs("success") /\ files[args.path] # Absent)
  /\ (HasReturned /\ op = "create_database" /\ JustAfter("create_database"))
       => (StatusIs("exists") /\ files = pre /\ raised = NoExc)
  /\ (HasReturned /\ op = "delete_database" /\ pre[args.path] # Absent /\ raised = NoExc)
       => (StatusIs("success") /\ files[args.path] = Absent)
  /\ (HasReturned /\ op = "delete_database" /\ JustAfter("delete_database"))
       => (StatusIs("not_found") /\ files = pre /\ raised = NoExc)

\* the second delete_database of a pair has returned
C11_Witness ==
  /\ HasReturned
  /\ op = "delete_database"
  /\ JustAfter("delete_database")
  /\ StatusIs("not_found")

\* the names of the tables of a database, in catalog order, as Python strings
TableNamesOf(tables) == [i \in 1..Len(tables) |-> PyStr(tables[i].name)]

\* the tables member of the envelope list_tables returned
ListedTables == DictGet(Parsed, "tables")

ListTablesReturned == HasReturned /\ op = "list_tables" /\ raised = NoExc

\* C12: create_database on an absent path returns success and leaves an empty
\* database there, and list_tables right after it returns an empty list;
\* whenever list_tables returns, its tables list is exactly the names of the
\* tables the store holds at that path: right after a CREATE TABLE through
\* execute_query the new name is in it, right after a successful delete_table
\* the dropped name is not.
C12_ListTablesFollowsTheStore ==
  /\ (HasReturned /\ op = "create_database" /\ pre[args.path] = Absent /\ raised = NoExc)
       => (StatusIs("success") /\ files[args.path] = Database(<<>>))
  /\ ListTablesReturned =>
       /\ StatusIs("success")
       /\ DictKeys(Parsed) = {"status", "tables"}
       /\ ListedTables = PyList(TableNamesOf(TablesNow))
       /\ JustAfter("create_database") => ListedTables = PyList(<<>>)
       /\ JustAfter("create_table") =>
            \E i \in 1..PyLen(ListedTables) : ListedTables.v[i] = PyStr(last.table)
       /\ JustAfter("delete_table") =>
            \A i \in 1..PyLen(ListedTables) : ListedTables.v[i] # PyStr(last.table)

\* list_tables right after a delete_table that left another table behind
C12_Witness ==
  /\ ListTablesReturned
  /\ JustAfter("delete_table")
  /\ PyLen(ListedTables) = 1

\* the present invocation is the call the scenario has next at this stage, on
\* the scenario's path and table, and no exception interrupted it
ScenarioCall(stage, o) ==
  /\ HasReturned
  /\ scenario.stage = stage
  /\ op = o
  /\ args.path = GoodPath
  /\ args.table_name = scenario.table
  /\ raised = NoExc

\* C13: in the scenario create_database, CREATE TABLE t, n single-row
\* INSERTs into t, get_table_row_count(t), delete_table(t), describe_table(t),
\* all on one path with no other call on it in between, get_table_row_count
\* returns row_count = n, delete_table returns success and describe_table
\* returns not_found.
C13_CountDropDescribe ==
  /\ ScenarioCall("filling", "get_table_row_count") =>
       /\ StatusIs("success")
       /\ DictGet(Parsed, "row_count") = PyInt(scenario.n)
       /\ DictGet(Parsed, "table") = PyStr(scenario.table)
  /\ ScenarioCall("counted", "delete_table") =>
       /\ StatusIs("success")
       /\ FindTable(TablesNow, scenario.table) = 0
  /\ ScenarioCall("dropped", "describe_table") => StatusIs("not_found")

\* the end of the scenario with n = 2
C13_Witness ==
  /\ ScenarioCall("dropped", "describe_table")
  /\ scenario.n = 2
  /\ StatusIs("not_found")

\* the exceptions that come from the file system, not from the statement
EnvironmentFailed == raised \in {DiskIOError, CannotOpen, OSErrorRemove}

\* a table handler has returned for a name that is an identifier, and the
\* file system did not fail under it
TableHandlerReturned(o) ==
  /\ HasReturned
  /\ op = o
  /\ WholeIdentifier(args.table_name)
  /\ ~EnvironmentFailed

\* the table of the store that the handler's table_name names, 0 for none
NamedTable == FindTable(TablesAtCall, args.table_name)

\* C14: describe_table with an identifier that names no table returns
\* not_found, raising nothing; it returns success, with the table name and a
\* non-empty columns list, exactly when the catalog reports at least one
\* column for the name.
C14_DescribeNotFoundOrColumns ==
  TableHandlerReturned("describe_table") =>
    /\ NamedTable = 0 => (StatusIs("not_found") /\ raised = NoExc)
    /\ StatusIs("success") <=> cursor.rows # <<>>
    /\ StatusIs("success") =>
         /\ DictGet(Parsed, "table") = PyStr(args.table_name)
         /\ DictGet(Parsed, "columns").t = "list"
         /\ PyLen(DictGet(Parsed, "columns")) = Len(cursor.rows)

\* the descriptor describe_table is to return for a column of the catalog
Descriptor(col) ==
  PyDict(<< <<"cid", PyInt(col.cid)>>, <<"name", PyStr(col.name)>>,
            <<"type", PyStr(col.type)>>, <<"notnull", PyInt(col.notnull)>>,
            <<"default_value", col.dflt_value>>, <<"pk", PyInt(col.pk)>> >>)

\* C15: for an existing table describe_table returns one descriptor per
\* column, in ordinal order, each with the column's name, declared type,
\* not-null flag, default value and primary-key rank (0 outside the key);
\* for a table of the columns id INTEGER PRIMARY KEY and name TEXT NOT NULL
\* that is two descriptors, pk = 1 on id and notnull = 1 on name.
C15_OneDescriptorPerColumn ==
  (TableHandlerReturned("describe_table") /\ NamedTable # 0) =>
    LET cols == TablesAtCall[NamedTable].cols
    IN  /\ StatusIs("success")
        /\ DictGet(Parsed, "columns").t = "list"
        /\ PyLen(DictGet(Parsed, "columns")) = Len(cols)
        /\ \A j \in 1..Len(cols) :
             /\ DictGet(Parsed, "columns").v[j] = Descriptor(cols[j])
             /\ cols[j].cid = j - 1
        /\ cols = ColsNameId =>
             \A j \in 1..2 :
               LET d == DictGet(Parsed, "columns").v[j]
               IN  /\ DictGet(d, "pk") = PyInt(IF DictGet(d, "name") = PyStr(Str("id")) THEN 1 ELSE 0)
                   /\ DictGet(d, "notnull") =
                        PyInt(IF DictGet(d, "name") = PyStr(Str("name")) THEN 1 ELSE 0)

\* the statements of the present invocation that are DROP statements
Drops == {i \in 1..Len(executed) : executed[i].text = DropTableText}

\* the catalog lookup of delete_table finds a table: one is stored under
\* exactly the name given
LookupFinds == \E i \in 1..Len(TablesAtCall) : TablesAtCall[i].name = args.table_name

\* C16: delete_table with an identifier first looks the name up in the
\* catalog; when the lookup finds no table it returns not_found and executes
\* no DROP; when the lookup finds the table it executes the DROP, commits and
\* returns success, and the table is then absent from the store.
C16_DropOnlyIfPresent ==
  TableHandlerReturned("delete_table") =>
    /\ executed # <<>>
    /\ executed[1].text = LookupTableText
    /\ executed[1].params = <<args.table_name>>
    /\ ~LookupFinds =>
         /\ StatusIs("not_found")
         /\ Drops = {}
         /\ files[args.path].v = TablesAtCall
    /\ LookupFinds =>
         /\ StatusIs("success")
         /\ Drops = {2}
         /\ commits = 1
         /\ FindTable(TablesNow, args.table_name) = 0

\* C17: get_table_row_count with an identifier returns {status: success,
\* table: name, row_count: n} with n the number of rows the table holds;
\* when the table does not exist it returns status error, raising nothing
\* to its caller, with the store's error text in the message.
C17_RowCountOrError ==
  TableHandlerReturned("get_table_row_count") =>
    /\ NamedTable # 0 =>
         /\ StatusIs("success")
         /\ DictKeys(Parsed) = {"status", "table", "row_count"}
         /\ DictGet(Parsed, "table") = PyStr(args.table_name)
         /\ DictGet(Parsed, "row_count") = PyInt(Len(TablesAtCall[NamedTable].rows))
    /\ NamedTable = 0 =>
         /\ StatusIs("error")
         /\ raised.type = "OperationalError"
         /\ Contains(DictGet(Parsed, "message").v, raised.text)

\* The envelope a handler returns when the file system does not fail under
\* it, computed from its arguments and the store alone.
ExpectedReturn(o, a, fs) ==
  LET tables == fs[a.path].v
      Error(e) == MessageEnvelope("error", ErrorMessage(o, a, e))
      Cursor(out) == [rows |-> out.rows, description |-> out.description,
                      rowcount |-> out.rowcount]
  IN  IF o \in TableOps /\ ~ReMatch(a.table_name)
        THEN MessageEnvelope("error", InvalidNameMessage(a.table_name))
      ELSE IF o = "create_database" /\ fs[a.path] # Absent
        THEN MessageEnvelope("exists", <<"Database already exists at ", a.path>>)
      ELSE IF o = "delete_database"
        THEN IF fs[a.path] # Absent
               THEN MessageEnvelope("success", <<"Database deleted from ", a.path>>)
               ELSE MessageEnvelope("not_found", <<"Database file not found at ", a.path>>)
      ELSE IF a.path = BadPath THEN Error(CannotOpen)
      ELSE IF o = "create_database"
        THEN MessageEnvelope("success", <<"Database created at ", a.path>>)
      ELSE
        LET out == SqliteExecute(tables, FirstStatement(o, a))
        IN  IF out.exc # NoExc THEN Error(out.exc)
            ELSE IF o = "execute_query" /\ ~BeginsWithSelect(a.query.text)
              THEN AffectedEnvelope(out.rowcount)
            ELSE IF o = "delete_table"
              THEN IF out.rows = <<>>
                     THEN MessageEnvelope("not_found",
                            <<"Table '">> \o a.table_name \o <<"' not found. No action taken.">>)
                     ELSE LET drop == SqliteExecute(tables, DropStatement(a))
                          IN  IF drop.exc # NoExc THEN Error(drop.exc)
                              ELSE MessageEnvelope("success",
                                     <<"Table '">> \o a.table_name
                                       \o <<"' deleted successfully.">>)
            ELSE IF Serializable(Fetched(o, a, Cursor(out)))
              THEN Fetched(o, a, Cursor(out))
              ELSE Error(NotSerializable)

\* C18: invocations share nothing inside the process.  An invocation has no
\* connection and no cursor before it connects, the only connection open in
\* the process is the one the running invocation opened, and the envelope it
\* returns is the function above of its arguments and of the store as it was
\* when the invocation ran, whatever the invocations before it did.
C18_InvocationsShareNothing ==
  /\ pc \in {"idle", "check", "exists", "connect"} =>
       (conn = "None" /\ cursor = NoCursor /\ view = <<>> /\ ~inTxn /\ openConns = 0)
  /\ conn = "open" => (connects = 1 /\ openConns = 1)
  /\ cursor # NoCursor => (executed # <<>> /\ connects = 1)
  /\ (HasReturned /\ raised \notin {DiskIOError, OSErrorRemove}) =>
       returned = JsonDumps(ExpectedReturn(op, args, pre))

\* a SELECT that returns rows, right after an invocation that changed the
\* catalog on the same path
C18_Witness ==
  /\ SelectSucceeded
  /\ JustAfter("delete_table")
  /\ PyLen(DictGet(Parsed, "data")) = 2

\* a handler has been called and has not returned
Running == pc \notin {"idle", "done", "crashed", "rejected"}

\* the calls an invocation has made on the store so far
StoreCalls == connects + Len(executed) + commits

\* C19: every invocation returns an envelope: a handler that has been called
\* eventually returns a JSON object, and it makes at most one connect, two
\* execute and one commit call on the store before it does, with no step
\* repeated.
C19_EveryInvocationReturns ==
  /\ [](connects <= 1 /\ Len(executed) <= 2 /\ commits <= 1 /\ StoreCalls <= 4)
  /\ Running ~> (HasReturned /\ returned.t = "object")

\* delete_table has returned after all four of its calls on the store
C19_Witness ==
  /\ HasReturned
  /\ op = "delete_table"
  /\ StoreCalls = 4

\* C20: a request that names no registered command fails with
\* UnknownCommand, and one that names a registered command and leaves out or
\* mistypes a required argument fails with InvalidArguments naming those
\* arguments; either way no handler is invoked: nothing is connected to,
\* nothing executed, nothing returned, and the store is as it was.
C20_RefusedBeforeTheHandler ==
  /\ pc = "rejected" <=> refused # NotRefused
  /\ refused # NotRefused =>
       LET req == refused.request
       IN  /\ req.name \notin Ops =>
                refused.fault = [kind |-> "UnknownCommand", params |-> {}]
           /\ req.name \in Ops =>
                /\ refused.fault.kind = "InvalidArguments"
                /\ refused.fault.params = req.missing \cup req.mistyped
                /\ refused.fault.params # {}
           /\ op = "none"
           /\ conn = "None"
           /\ connects = 0
           /\ openConns = 0
           /\ executed = <<>>
           /\ returned = NoReturn
           /\ files = pre

\* get_table_row_count refused, on a store that holds a table, for a missing
\* connection_string and a table_name that is no string
C20_Witness ==
  /\ pc = "rejected"
  /\ refused.request = Request("get_table_row_count", {"connection_string"}, {"table_name"})
  /\ refused.fault.kind = "InvalidArguments"
  /\ files[GoodPath] # Absent
  /\ files[GoodPath].v # <<>>

\* ------------------------------------------------------------------ C21, C22
FormsReturned(o) == fpc = "done" /\ fop = o
ReturnedJson     == freturned.t = "object"
FormsParsed      == JsonLoads(freturned)
CallsTo(api)     == {i \in 1..Len(calls) : calls[i].api = api}

\* the sixth "/"-separated segment of the form's responderUri, empty when
\* the form has no responderUri or the URI has fewer segments
UriSegments ==
  IF DictHas(form, "responderUri")
    THEN PySplit(DictGet(form, "responderUri").v, "/")
    ELSE <<>>
IdInUri == IF Len(UriSegments) >= 6 THEN UriSegments[6] ELSE <<>>

\* the handler has read the form's responderUri and found an id in it
IdExtracted == Len(calls) >= 2 /\ calls[2].ok /\ IdInUri # <<>>

FormatIsCsv == PyUpper(fargs.format) = <<"C", "S", "V">>

\* C21: when export_responses has returned, it has created a spreadsheet or
\* sent a batchUpdate only if no id was extracted from the responderUri, and a
\* batchUpdate it sent links the form to the spreadsheet just created; when an
\* id was extracted neither call was made and the returned link contains the
\* id; a format equal to "csv" without regard to case yields export_format
\* csv with a download_link, any other format export_format sheets with
\* spreadsheet_id and spreadsheet_link.
C21_ExportLinksOrCreates ==
  FormsReturned("export_responses") =>
    /\ (CallsTo("spreadsheets.create") # {} \/ CallsTo("forms.batchUpdate") # {})
         => ~IdExtracted
    /\ \A i \in CallsTo("forms.batchUpdate") :
         /\ i > 1
         /\ calls[i - 1] = ApiCall("spreadsheets.create", SpreadsheetBody(form), TRUE)
         /\ calls[i].body = LinkRequest(PyStr(NewSheetId))
    /\ IdExtracted =>
         /\ CallsTo("spreadsheets.create") = {}
         /\ CallsTo("forms.batchUpdate") = {}
         /\ ReturnedJson
         /\ \E k \in {"download_link", "spreadsheet_link"} :
              /\ DictHas(FormsParsed, k)
              /\ Contains(DictGet(FormsParsed, k).v, IdInUri)
    /\ ReturnedJson =>
         IF FormatIsCsv
           THEN /\ DictGet(FormsParsed, "export_format") = PyStr(<<"csv">>)
                /\ DictKeys(FormsParsed) = {"form_id", "export_format", "download_link"}
           ELSE /\ DictGet(FormsParsed, "export_format") = PyStr(<<"sheets">>)
                /\ DictKeys(FormsParsed) =
                     {"form_id", "export_format", "spreadsheet_id", "spreadsheet_link"}

\* an id was found in the URI and the format was given in capitals
C21_Witness ==
  /\ FormsReturned("export_responses")
  /\ IdExtracted
  /\ fargs.format = <<"C", "S", "V">>
  /\ DictHas(FormsParsed, "download_link")

\* the first entry of the requests list of the batchUpdate sent as call i
FirstRequest(i) == DictGet(calls[i].body, "requests").v[1]

\* C22: when modify_form_settings has returned, its first service call was
\* the one forms.get it made and at most one batchUpdate followed; a
\* batchUpdate carries at least one request, and with every optional argument
\* None none was sent; with collect_email not None a batchUpdate was sent
\* unless the fetch failed, and its first request is updateSettings with
\* settings.collectEmail equal to the argument and updateMask "collectEmail";
\* a returned JSON document echoes form_id, collect_email, limit_responses
\* and response_limit with settings_updated true.
C22_SettingsOneFetchOneUpdate ==
  FormsReturned("modify_form_settings") =>
    /\ CallsTo("forms.get") = {1}
    /\ CallsTo("forms.batchUpdate") \subseteq {2}
    /\ CallsTo("spreadsheets.create") = {}
    /\ \A i \in CallsTo("forms.batchUpdate") :
         Len(DictGet(calls[i].body, "requests").v) >= 1
    /\ (fargs.collect_email = PyNone /\ fargs.limit_responses = PyNone
          /\ fargs.response_limit = PyNone)
         => CallsTo("forms.batchUpdate") = {}
    /\ (fargs.collect_email # PyNone /\ calls[1].ok) =>
         /\ CallsTo("forms.batchUpdate") = {2}
         /\ FirstRequest(2) =
              PyDict(<< <<"updateSettings",
                PyDict(<< <<"settings", PyDict(<< <<"collectEmail", fargs.collect_email>> >>)>>,
                          <<"updateMask", PyStr(<<"collectEmail">>)>> >>)>> >>)
    /\ ReturnedJson =>
         /\ DictGet(FormsParsed, "form_id") = PyStr(fargs.form_id)
         /\ DictGet(FormsParsed, "settings_updated") = PyBool(TRUE)
         /\ DictGet(FormsParsed, "collect_email") = fargs.collect_email
         /\ DictGet(FormsParsed, "limit_responses") = fargs.limit_responses
         /\ DictGet(FormsParsed, "response_limit") = fargs.response_limit

\* both settings were given: the batchUpdate carried two requests
C22_Witness ==
  /\ FormsReturned("modify_form_settings")
  /\ ReturnedJson
  /\ fargs.collect_email = PyBool(FALSE)
  /\ fargs.limit_responses = PyBool(TRUE)
  /\ fargs.response_limit = PyInt(5)
  /\ CallsTo("forms.batchUpdate") = {2}
  /\ Len(DictGet(calls[2].body, "requests").v) = 2

\* ------------------------------------------------------------------ C23
ReadOnlyOps == {"list_tables", "describe_table", "get_table_row_count"}

\* C23: list_tables, describe_table and get_table_row_count leave the store
\* unchanged, for every argument and every store state: from the call to the
\* return the store is what it was at the call, and in particular a path that
\* held no database at the call holds none at the return, so that a following
\* create_database finds the path free and a following delete_database finds
\* nothing to delete.
C23_ReadOnlyLeavesStore ==
  op \in ReadOnlyOps =>
    /\ files = pre
    /\ pre[args.path] = Absent => ~PathExists(files, args.path)

\* ------------------------------------------------------------------ C24
\* every invocation submitted together has received its answer
BatchDone ==
  /\ pc = "idle"
  /\ inflight = <<>>
  /\ suspended = <<>>
  /\ answers # <<>>

BatchOf(o)    == \A i \in 1..Len(answers) : answers[i].op = o
Count(status) == Cardinality({i \in 1..Len(answers) : answers[i].status = status})
BatchPath     == answers[1].path
NoneFailed ==
  \A i \in 1..Len(answers) :
    answers[i].raised \notin {DiskIOError, CannotOpen, OSErrorRemove}

\* C24: with several invocations in flight no handler is ever suspended: the
\* loop starts a handler only when none is running.  When any number of
\* create_database calls submitted together on a path that held nothing have
\* all returned, exactly one returned success and all others exists; when
\* delete_database calls submitted together on a path that held a database
\* have all returned, exactly one returned success and the others not_found
\* (the file system not failing under them).
C24_HandlersRunAtomically ==
  /\ suspended = <<>>
  /\ (BatchDone /\ BatchOf("create_database") /\ batchPre[BatchPath] = Absent
        /\ NoneFailed)
       => /\ Count("success") = 1
          /\ Count("exists") = Len(answers) - 1
  /\ (BatchDone /\ BatchOf("delete_database") /\ batchPre[BatchPath] # Absent
        /\ NoneFailed)
       => /\ Count("success") = 1
          /\ Count("not_found") = Len(answers) - 1

\* three create_database calls in flight at once have all returned
C24_Witness ==
  /\ BatchDone
  /\ BatchOf("create_database")
  /\ batchPre[BatchPath] = Absent
  /\ Len(answers) = 3
  /\ Count("success") = 1
  /\ Count("exists") = 2

\* ------------------------------------------------------------------ C25
\* the connection a finished handler had held is closed, nothing pending
NothingPending == conn = "closed" /\ ~inTxn

\* C25: when execute_query has returned status error for a statement against
\* a path that held a database at the call, the store is what it was at the
\* call, tables and rows, and the handler's connection is closed with no
\* transaction left open: nothing the statement did was committed.
C25_ErrorCommitsNothing ==
  (HasReturned /\ op = "execute_query" /\ StatusIs("error") /\ pre[args.path] # Absent)
    => /\ files = pre
       /\ NothingPending
       /\ commits = 0

\* an INSERT ran and its commit failed: the row is not in the store
C25_Witness ==
  /\ HasReturned
  /\ op = "execute_query"
  /\ StatusIs("error")
  /\ pre[args.path] # Absent
  /\ SqlFirstKeyword(args.query.text) = KwInsert
  /\ Len(executed) = 1
  /\ raised = DiskIOError
  /\ cursor.rowcount = 1

\* ------------------------------------------------------------------ C26
\* execute_query returned success for a statement that is a SELECT both for
\* SQLite and for the handler's test, over one table or a join
AnySelectSucceeded ==
  /\ HasReturned
  /\ op = "execute_query"
  /\ SqlFirstKeyword(args.query.text) = KwSelect
  /\ BeginsWithSelect(args.query.text)
  /\ raised = NoExc

\* C26: for every SELECT that executes successfully, data has one mapping per
\* row of the result and each mapping has exactly one entry per column of the
\* result descriptor, with that column's value of the row, also when two
\* result columns carry the same name.
C26_OneEntryPerResultColumn ==
  AnySelectSucceeded =>
    LET data == DictGet(Parsed, "data").v
    IN  /\ Len(data) = Len(cursor.rows)
        /\ \A j \in 1..Len(data) :
             /\ PyLen(data[j]) = Len(cursor.description)
             /\ \A c \in 1..Len(cursor.description) :
                  \E e \in 1..Len(data[j].v) :
                    data[j].v[e] = <<cursor.description[c], cursor.rows[j][c]>>

\* ------------------------------------------------------------------ C27
\* the executed statement produced a result set: the cursor has a descriptor
ProducedResultSet == cursor.description # <<>>

\* C27: when execute_query has returned success, the envelope carries data
\* exactly when the executed statement produced a result set and
\* affected_rows exactly when it did not, so that no statement that yields
\* rows has them replaced by a count; and affected_rows is never negative.
C27_DataIffResultSet ==
  (HasReturned /\ op = "execute_query" /\ StatusIs("success")) =>
    /\ DictHas(Parsed, "data") <=> ProducedResultSet
    /\ DictHas(Parsed, "affected_rows") <=> ~ProducedResultSet
    /\ DictHas(Parsed, "affected_rows") => DictGet(Parsed, "affected_rows").v >= 0

\* ------------------------------------------------------------------ C28
\* the tables of a catalog without the one that bears exactly this name
WithoutTable(tables, name) ==
  LET keep == {i \in 1..Len(tables) : tables[i].name # name}
      RECURSIVE Pick(_)
      Pick(i) == IF i > Len(tables) THEN <<>>
                 ELSE IF i \in keep THEN <<tables[i]>> \o Pick(i + 1)
                 ELSE Pick(i + 1)
  IN  Pick(1)

\* C28: when delete_table has returned success, the store differs from the
\* store at the call by the named table alone: every other table is there
\* with its columns and rows, in the same order, and every other path is
\* untouched; when it has returned not_found or error, the whole store is
\* what it was at the call.
C28_DeleteTableFrame ==
  (HasReturned /\ op = "delete_table") =>
    IF StatusIs("success")
      THEN /\ pre[args.path] # Absent
           /\ Len(TablesNow) = Len(TablesAtCall) - 1
           /\ files = [pre EXCEPT ![args.path] =
                         Database(WithoutTable(TablesAtCall, args.table_name))]
      ELSE files = pre

\* ------------------------------------------------------------------ C29
\* the status a handler returns for the arguments of the running invocation
\* on the store as it was at the call
StatusFor(o) == DictGet(ExpectedReturn(o, args, pre), "status")

\* the names list_tables returns on that store
ListedAtCall ==
  LET listed == DictGet(ExpectedReturn("list_tables", args, pre), "tables").v
  IN  {listed[j].v : j \in 1..Len(listed)}

\* C29: the operations that take a table name agree on whether the table
\* exists.  When one of them has returned for an identifier t on a path that
\* holds a database, its status is the one computed for it, and on that store
\* describe_table(t) returns not_found exactly when delete_table(t) returns
\* not_found and exactly when get_table_row_count(t) returns error, and t is
\* among the names list_tables returns exactly when describe_table(t) returns
\* success, whatever the letter case of t.
C29_HandlersAgreeOnExistence ==
  (TableHandlerReturned(op) /\ op \in TableOps /\ pre[args.path] # Absent) =>
    /\ DictGet(Parsed, "status") = StatusFor(op)
    /\ (StatusFor("describe_table") = PyStr(Str("not_found")))
         <=> (StatusFor("delete_table") = PyStr(Str("not_found")))
    /\ (StatusFor("describe_table") = PyStr(Str("not_found")))
         <=> (StatusFor("get_table_row_count") = PyStr(Str("error")))
    /\ (args.table_name \in ListedAtCall)
         <=> (StatusFor("describe_table") = PyStr(Str("success")))

\* ------------------------------------------------------------------ C30
Imported   == spc \notin {"off", "def1", "def2", "def3"}
MainCalled == Imported /\ spc # "entry"
Untouched  == files = [p \in Paths |-> Absent] /\ cwd = {}
KnownTransport == TransportMode(argv) \in {"stdio", "sse"}

\* C30: starting the SQL server touches no database.  Once the module is
\* imported the name main is bound to main(transport); the process never
\* runs async main() or init_db, never sleeps in their loop and never creates
\* your_sqlite_database.db; up to the moment the server serves its first
\* call no database exists that did not exist before.  For transport stdio
\* or sse, main runs the server on that transport; for any other value no
\* server runs, no handler is ever invoked and the store stays untouched.
C30_StartTouchesNoDatabase ==
  /\ Imported => binding["main"] = "main(transport)"
  /\ spc \notin {"TypeError", "coroutine", "sleeping"}
  /\ cwd = {}
  /\ (spc \in {"off", "def1", "def2", "def3", "entry"}) => (Untouched /\ pc = "idle" /\ server = "none")
  /\ (MainCalled /\ KnownTransport) =>
       /\ spc \in {"serving", "returned", "ValueError"}
       /\ spc = "serving" <=> server = TransportMode(argv)
       /\ spc # "serving" => server = "none"
  /\ (MainCalled /\ ~KnownTransport) =>
       /\ spc \in {"printed", "ValueError"}
       /\ server = "none"
       /\ pc = "idle"
       /\ Untouched

\* the server has just begun to serve on sse: no call yet, no database
C30_Witness ==
  /\ spc = "serving"
  /\ argv = <<"sse">>
  /\ server = "sse"
  /\ pc = "idle"
  /\ Untouched

====
